---- MODULE Spec2Model ----
(***************************************************************************)
(* A model of GeometricKernels: the kernel factory MaternGeometricKernel,  *)
(* the feature maps of kernels/feature_maps.py, the lab_extras primitives  *)
(* set_value, eigenpairs and degree, the circle's sin-cos basis, the       *)
(* helpers of utils/utils.py and the shapes of the hyperbolic kernel.      *)
(*                                                                         *)
(* Each sub-system has its own variables, initial predicate and            *)
(* specification; the variable prog says which sub-system a behaviour      *)
(* exercises, the variables of the others stay at their idle values.       *)
(***************************************************************************)
EXTENDS Integers, Sequences, FiniteSets, TLC

VARIABLES
    prog,       \* which sub-system this behaviour exercises
    call,       \* factory: the arguments of the last MaternGeometricKernel(...) call
    result,     \* factory: what that call built, returned or raised
    fmcall,     \* feature maps: the arguments of the last _map(...) call
    fmout,      \* feature maps: its sampling calls, features and context
    kl,         \* compact spaces: last evaluation of the deterministic map and of K
    heap,       \* set_value: the arrays alive, by object identity
    sv,         \* set_value: the last set_value call and what happened since
    la,         \* sparse linear algebra: the last eigenpairs / degree call
    circ,       \* circle: the last construction or use of the sin-cos basis
    util,       \* utils, stiefel: the last call of a pure helper function
    md,         \* make_deterministic: the key, the wrapper and the calls of f
    hyp,        \* hyperbolic space: the shapes of the last kernel evaluation
    gp          \* GPJax frontend: the wrapper around a base kernel and its last call

vars == <<prog, call, result, fmcall, fmout, kl, heap, sv, la, circ, util, md,
          hyp, gp>>

(***************************************************************************)
(* Bounds of the model.                                                    *)
(***************************************************************************)
MaxNum == 2          \* caller-supplied orders range over -1 .. MaxNum
MaxSmallVertices == 2 \* small vertex counts 1 .. MaxSmallVertices
MaxKey == 2          \* random keys (random states) range over 0 .. MaxKey

(***************************************************************************)
(* Program constants: MaternGeometricKernel's class attributes.            *)
(***************************************************************************)
DEFAULT_NUM_EIGENFUNCTIONS == 1000
DEFAULT_NUM_LEVELS == 35
DEFAULT_NUM_RANDOM_PHASES == 3000

(***************************************************************************)
(* The class hierarchy of the spaces the factory imports.                  *)
(***************************************************************************)
SpaceClasses ==
    {"Space", "DiscreteSpectrumSpace", "NoncompactSymmetricSpace",
     "Mesh", "Graph", "Hyperbolic", "SymmetricPositiveDefiniteMatrices"}

\* class Hyperbolic(Space, gs.geometry.hyperboloid.Hyperboloid)
HyperbolicBases == {"Space"}

\* The direct bases of the classes whose definitions are not among the
\* sources: Graph and Mesh refine DiscreteSpectrumSpace, the positive-definite
\* matrices are a noncompact symmetric space.
DeclaredBases(cls) ==
    CASE cls = "DiscreteSpectrumSpace" -> {"Space"}
      [] cls = "NoncompactSymmetricSpace" -> {"Space"}
      [] cls = "Mesh" -> {"DiscreteSpectrumSpace"}
      [] cls = "Graph" -> {"DiscreteSpectrumSpace"}
      [] cls = "SymmetricPositiveDefiniteMatrices" -> {"NoncompactSymmetricSpace"}
      [] OTHER -> {}

Bases(cls) == IF cls = "Hyperbolic" THEN HyperbolicBases ELSE DeclaredBases(cls)

\* isinstance(space, target): target is the class of space or one of its
\* ancestors (the hierarchy is at most three deep).
IsInstance(cls, target) ==
    \/ cls = target
    \/ target \in Bases(cls)
    \/ \E b \in Bases(cls) : target \in Bases(b)

(***************************************************************************)
(* Optional order: None, or an integer.                                    *)
(***************************************************************************)
NoneNum == [given |-> FALSE, val |-> 0]
SomeNum(n) == [given |-> TRUE, val |-> n]

\* Python truthiness of num: None and 0 are falsy.
Truthy(num) == num.given /\ num.val # 0

Min(a, b) == IF a <= b THEN a ELSE b

(***************************************************************************)
(* default_num: plum dispatches to the most specific registered signature. *)
(* A class matching no signature has no method (the factory never asks).   *)
(***************************************************************************)
\* default_num with the Mesh method forgetting the vertex count.
DefaultNumMeshIgnoresVertices(space) ==
    IF IsInstance(space.cls, "Mesh") THEN DEFAULT_NUM_EIGENFUNCTIONS
    ELSE IF IsInstance(space.cls, "Graph")
    THEN Min(DEFAULT_NUM_EIGENFUNCTIONS, space.num_vertices)
    ELSE IF IsInstance(space.cls, "DiscreteSpectrumSpace")
    THEN DEFAULT_NUM_LEVELS
    ELSE IF IsInstance(space.cls, "NoncompactSymmetricSpace")
    THEN DEFAULT_NUM_RANDOM_PHASES
    ELSE -1

default_num(space) ==
    IF IsInstance(space.cls, "Mesh")
    THEN Min(DEFAULT_NUM_EIGENFUNCTIONS, space.num_vertices)
    ELSE IF IsInstance(space.cls, "Graph")
    THEN Min(DEFAULT_NUM_EIGENFUNCTIONS, space.num_vertices)
    ELSE IF IsInstance(space.cls, "DiscreteSpectrumSpace")
    THEN DEFAULT_NUM_LEVELS
    ELSE IF IsInstance(space.cls, "NoncompactSymmetricSpace")
    THEN DEFAULT_NUM_RANDOM_PHASES
    ELSE -1

(***************************************************************************)
(* Kernel and feature-map objects.                                         *)
(***************************************************************************)
NoKernel == [type |-> "None"]
NoFeatureMap == [kind |-> "None"]

MaternKarhunenLoeveKernel(space, num, normalize) ==
    [type |-> "MaternKarhunenLoeveKernel", space |-> space, num |-> num,
     normalize |-> normalize]

MaternFeatureMapKernel(space, feature_map, key, normalize) ==
    [type |-> "MaternFeatureMapKernel", space |-> space,
     feature_map |-> feature_map, key |-> key, normalize |-> normalize]

\* The four feature-map constructors the factory imports; each returns the
\* closure _map, which holds the constructor's arguments.
deterministic_feature_map_compact(space, kernel) ==
    [kind |-> "deterministic_feature_map_compact", space |-> space,
     kernel |-> kernel]

random_phase_feature_map_noncompact(space, num_random_phases) ==
    [kind |-> "random_phase_feature_map_noncompact", space |-> space,
     num |-> num_random_phases]

rejection_sampling_feature_map_hyperbolic(space, num) ==
    [kind |-> "rejection_sampling_feature_map_hyperbolic", space |-> space,
     num |-> num]

rejection_sampling_feature_map_spd(space, num) ==
    [kind |-> "rejection_sampling_feature_map_spd", space |-> space,
     num |-> num]

\* default_feature_map: five registrations, the Hyperbolic one twice (the
\* second replaces the first, they are the same); plum picks the most
\* specific signature the space matches.
default_feature_map(space, num, kernel) ==
    IF IsInstance(space.cls, "Hyperbolic")
    THEN rejection_sampling_feature_map_hyperbolic(space, num)
    ELSE IF IsInstance(space.cls, "SymmetricPositiveDefiniteMatrices")
    THEN rejection_sampling_feature_map_spd(space, num)
    ELSE IF IsInstance(space.cls, "DiscreteSpectrumSpace")
    THEN deterministic_feature_map_compact(space, kernel)
    ELSE IF IsInstance(space.cls, "NoncompactSymmetricSpace")
    THEN random_phase_feature_map_noncompact(space, num)
    ELSE NoFeatureMap

(***************************************************************************)
(* MaternGeometricKernel.__new__, branch by branch.  The outcome records   *)
(* the exception raised (or "ok"), the objects constructed in order, the   *)
(* kernel, the feature map, the resolved order and what is returned.       *)
(***************************************************************************)
Outcome(status, built, num, kernel, feature_map, return_feature_map) ==
    [status |-> status, built |-> built, num |-> num, kernel |-> kernel,
     feature_map |-> feature_map,
     returned |-> IF status # "ok" THEN "nothing"
                  ELSE IF return_feature_map THEN "kernel, feature_map"
                  ELSE "kernel"]

\* num = num or default_num(space)
ResolveNum(space, num) == IF Truthy(num) THEN num.val ELSE default_num(space)

\* if isinstance(space, DiscreteSpectrumSpace): ...
DiscreteBranch(c) ==
    LET num == ResolveNum(c.space, c.num)
        kernel == MaternKarhunenLoeveKernel(c.space, num, c.normalize)
        feature_map == default_feature_map(c.space, num, kernel)
    IN  Outcome("ok", <<"kernel", "feature_map">>, num, kernel, feature_map,
                c.return_feature_map)

\* The noncompact branch with the 'key' test after the feature map is built.
NoncompactBranchChecksKeyLate(c) ==
    LET num == ResolveNum(c.space, c.num)
        feature_map == default_feature_map(c.space, num, NoKernel)
    IN  IF c.has_key
        THEN Outcome("ok", <<"feature_map", "kernel">>, num,
                     MaternFeatureMapKernel(c.space, feature_map, c.key,
                                            c.normalize),
                     feature_map, c.return_feature_map)
        ELSE Outcome("ValueError", <<"feature_map">>, num, NoKernel,
                     feature_map, c.return_feature_map)

\* elif isinstance(space, NoncompactSymmetricSpace): ...
NoncompactBranch(c) ==
    LET num == ResolveNum(c.space, c.num)
    IN  IF c.has_key
        THEN LET feature_map == default_feature_map(c.space, num, NoKernel)
                 kernel == MaternFeatureMapKernel(c.space, feature_map, c.key,
                                                  c.normalize)
             IN  Outcome("ok", <<"feature_map", "kernel">>, num, kernel,
                         feature_map, c.return_feature_map)
        ELSE Outcome("ValueError", <<>>, num, NoKernel, NoFeatureMap,
                     c.return_feature_map)

\* The else branch falling back to the truncated-series kernel.
UnsupportedBranchFallsBack(c) == DiscreteBranch(c)

\* else: raise NotImplementedError
UnsupportedBranch(c) ==
    Outcome("NotImplementedError", <<>>, -1, NoKernel, NoFeatureMap,
            c.return_feature_map)

MaternGeometricKernel(c) ==
    IF IsInstance(c.space.cls, "DiscreteSpectrumSpace")
    THEN DiscreteBranch(c)
    ELSE IF IsInstance(c.space.cls, "NoncompactSymmetricSpace")
    THEN NoncompactBranch(c)
    ELSE UnsupportedBranch(c)

(***************************************************************************)
(* The factory's inputs.                                                   *)
(***************************************************************************)
NumVerticesValues ==
    (1 .. MaxSmallVertices)
    \cup {DEFAULT_NUM_EIGENFUNCTIONS - 1, DEFAULT_NUM_EIGENFUNCTIONS,
          DEFAULT_NUM_EIGENFUNCTIONS + 1}

Spaces ==
    {[cls |-> cls, num_vertices |-> nv] :
        cls \in {"Mesh", "Graph"}, nv \in NumVerticesValues}
    \cup {[cls |-> cls, num_vertices |-> 0] :
            cls \in SpaceClasses \ {"Mesh", "Graph"}}

NumArgs == {NoneNum} \cup {SomeNum(n) : n \in -1 .. MaxNum}

Keys == 0 .. MaxKey

FactoryCalls ==
    {[space |-> s, num |-> n, normalize |-> nz, return_feature_map |-> r,
      has_key |-> hk, key |-> IF hk THEN k ELSE 0] :
        s \in Spaces, n \in NumArgs, nz \in BOOLEAN, r \in BOOLEAN,
        hk \in BOOLEAN, k \in Keys}

NoCall == [space |-> [cls |-> "None", num_vertices |-> 0]]
NoResult == [status |-> "none"]

\* One call of MaternGeometricKernel(space, num, normalize,
\* return_feature_map, **kwargs).
New ==
    /\ prog = "factory"
    /\ result = NoResult
    /\ \E c \in FactoryCalls :
        /\ call' = c
        /\ result' = MaternGeometricKernel(c)
    /\ UNCHANGED <<prog, gp, la, circ, util, md, hyp, fmcall, fmout, kl, heap, sv>>

(***************************************************************************)
(* Exact arithmetic for the compact-space engine: rationals n/d in lowest  *)
(* terms with d > 0.                                                       *)
(***************************************************************************)
RECURSIVE Gcd(_, _)
Gcd(a, b) == IF b = 0 THEN a ELSE Gcd(b, a % b)

Abs(a) == IF a < 0 THEN -a ELSE a

Rat(n, d) ==
    LET g == Gcd(Abs(n), Abs(d))
        sgn == IF d < 0 THEN -1 ELSE 1
    IN  [n |-> sgn * (n \div g), d |-> sgn * (d \div g)]

RInt(k) == [n |-> k, d |-> 1]
RAdd(a, b) == Rat(a.n * b.d + b.n * a.d, a.d * b.d)
RMul(a, b) == Rat(a.n * b.n, a.d * b.d)
RDiv(a, b) == Rat(a.n * b.d, a.d * b.n)

\* The square root of a rational that is a perfect square.
ISqrt(k) == CHOOSE r \in 0 .. k : r * r = k
RSqrt(a) == [n |-> ISqrt(a.n), d |-> ISqrt(a.d)]

RECURSIVE RSum(_)
RSum(seq) == IF seq = <<>> THEN RInt(0) ELSE RAdd(Head(seq), RSum(Tail(seq)))

RECURSIVE IntPow(_, _)
IntPow(b, e) == IF e = 0 THEN 1 ELSE b * IntPow(b, e - 1)

(***************************************************************************)
(* chain(elements, repetitions): each element repeated its number of       *)
(* times, in order.                                                        *)
(***************************************************************************)
Repeat(x, k) == [i \in 1 .. k |-> x]

\* chain with every element taken once, whatever its repetitions.
ChainOnce(elements, repetitions) ==
    [i \in 1 .. Len(repetitions) |-> elements[i]]

RECURSIVE chain(_, _)
chain(elements, repetitions) ==
    IF repetitions = <<>> THEN <<>>
    ELSE Repeat(Head(elements), Head(repetitions))
         \o chain(Tail(elements), Tail(repetitions))

(***************************************************************************)
(* A compact (discrete-spectrum) space: points 0 .. MaxPoint, levels       *)
(* 0, 1, ... with eigenvalue level^2 and 1, 2, 2, ... eigenfunctions per   *)
(* level, and integer-valued eigenfunctions.                               *)
(***************************************************************************)
MaxPoint == 2        \* points of the space are 0 .. MaxPoint
MaxLevels == 2       \* kernels are truncated at 1 .. MaxLevels levels
MaxBatch == 2        \* point sets X, Y hold 1 .. MaxBatch points
MaxLengthscale == 2  \* lengthscales range over 1 .. MaxLengthscale

Points == 0 .. MaxPoint
Batches == UNION {[1 .. n -> Points] : n \in 1 .. MaxBatch}

SpaceDimension == 2
ParamsSet ==
    {[nu |-> 1, lengthscale |-> ls] : ls \in 1 .. MaxLengthscale}
InitParams == [nu |-> 1, lengthscale |-> 1]

\* space.get_eigenvalues(num): one eigenvalue per level, ascending.
get_eigenvalues(num) == [l \in 1 .. num |-> (l - 1) * (l - 1)]

\* The per-level counts with level 0 counted like the others.
PerLevelAllTwo(num) == [l \in 1 .. num |-> 2]

\* SinCosEigenfunctions.num_eigenfunctions_per_level, for num levels.
num_eigenfunctions_per_level(num) == [l \in 1 .. num |-> IF l = 1 THEN 1 ELSE 2]

RECURSIVE SumSeq(_)
SumSeq(seq) == IF seq = <<>> THEN 0 ELSE Head(seq) + SumSeq(Tail(seq))

\* kernel.num_eigenfunctions for a kernel truncated at num levels.
num_eigenfunctions(num) == SumSeq(num_eigenfunctions_per_level(num))

\* space.get_repeated_eigenvalues(num_eigenfunctions): the eigenvalue of
\* each eigenfunction.
get_repeated_eigenvalues(num) ==
    chain(get_eigenvalues(num), num_eigenfunctions_per_level(num))

\* The level (1-based) of eigenfunction m (1-based).
LevelOf(m) == IF m = 1 THEN 1 ELSE (m \div 2) + 1

\* Phi(X)[n, m]: the value of eigenfunction m at point x.
EigenfunctionValue(x, m) == IF m = 1 THEN 1 ELSE (((x + 1) * m) % 3) - 1

\* state["eigenfunctions"].__call__(X): [N, M]
Eigenfunctions(X, M) ==
    [n \in 1 .. Len(X) |-> [m \in 1 .. M |-> EigenfunctionValue(X[n], m)]]

\* The addition theorem: the sum, over the eigenfunctions of one level, of
\* their product at two points.
addition_theorem(x, y, level, num) ==
    SumSeq([m \in 1 .. num_eigenfunctions(num) |->
              IF LevelOf(m) = level
              THEN EigenfunctionValue(x, m) * EigenfunctionValue(y, m)
              ELSE 0])

\* kernel._spectrum(s, nu, lengthscale): the Matern spectral density
\* (2 nu / lengthscale^2 + s^2)^(-nu - dim/2), at s = sqrt(eigenvalue).
MaternSpectrum(eigenvalue, nu, lengthscale) ==
    LET power == nu + SpaceDimension \div 2
    IN  Rat(IntPow(lengthscale * lengthscale, power),
            IntPow(2 * nu + lengthscale * lengthscale * eigenvalue, power))

\* The weights of the truncated series: the spectral density per level,
\* rescaled, for a kernel built with normalize=True, by the reciprocal of
\* the average of the diagonal over a reference sample (all points of the
\* space) measured at construction.
AverageDiagonal(num) ==
    RDiv(RSum([x \in 1 .. MaxPoint + 1 |->
                 RSum([l \in 1 .. num |->
                         RMul(MaternSpectrum(get_eigenvalues(num)[l],
                                             InitParams.nu,
                                             InitParams.lengthscale),
                              RInt(addition_theorem(x - 1, x - 1, l, num)))])]),
         RInt(MaxPoint + 1))

KernelWeights(kernel, params) ==
    [l \in 1 .. kernel.num |->
        LET w == MaternSpectrum(get_eigenvalues(kernel.num)[l], params.nu,
                                params.lengthscale)
        IN  IF kernel.normalize THEN RDiv(w, AverageDiagonal(kernel.num))
            ELSE w]

\* MaternKarhunenLoeveKernel.K(params, state, X, Y): [N, M]
KarhunenLoeveK(kernel, params, X, Y) ==
    [i \in 1 .. Len(X) |-> [j \in 1 .. Len(Y) |->
        RSum([l \in 1 .. kernel.num |->
                RMul(KernelWeights(kernel, params)[l],
                     RInt(addition_theorem(X[i], Y[j], l, kernel.num)))])]]

\* deterministic_feature_map_compact(space, kernel)._map(X, params, state):
\* the eigenfunctions at X times the square roots of the spectrum at the
\* repeated eigenvalues.
DeterministicMap(fm, X, params) ==
    LET M == num_eigenfunctions(fm.kernel.num)
        repeated_eigenvalues == get_repeated_eigenvalues(fm.kernel.num)
        spectrum == [m \in 1 .. M |->
                        MaternSpectrum(repeated_eigenvalues[m], params.nu,
                                       params.lengthscale)]
        weights == [m \in 1 .. M |-> RSqrt(spectrum[m])]
        eigenfunctions == Eigenfunctions(X, M)
    IN  [features |->
            [n \in 1 .. Len(X) |-> [m \in 1 .. M |->
                RMul(RInt(eigenfunctions[n][m]), weights[m])]],
         context |-> [has_key |-> FALSE, key |-> 0]]

\* features(X) features(Y)^T
InnerProducts(FX, FY) ==
    [i \in 1 .. Len(FX) |-> [j \in 1 .. Len(FY) |->
        RSum([m \in 1 .. Len(FX[i]) |-> RMul(FX[i][m], FY[j][m])])]]

\* The factory calls that build a kernel on a generic compact space with
\* the order given by the caller.
CompactCalls ==
    {[space |-> [cls |-> "DiscreteSpectrumSpace", num_vertices |-> 0],
      num |-> SomeNum(n), normalize |-> nz, return_feature_map |-> TRUE,
      has_key |-> FALSE, key |-> 0] : n \in 1 .. MaxLevels, nz \in BOOLEAN}

NoKL == [evaluated |-> FALSE]

\* kernel, feature_map = MaternGeometricKernel(space, num, normalize,
\* return_feature_map=True), then the feature map at X and at Y and
\* kernel.K(params, state, X, Y).
EvaluateCompact ==
    /\ prog = "compact"
    /\ kl = NoKL
    /\ \E c \in CompactCalls, X \in Batches, Y \in Batches, params \in ParamsSet :
        LET made == MaternGeometricKernel(c)
        IN  kl' = [evaluated |-> TRUE,
                   kernel |-> made.kernel,
                   feature_map |-> made.feature_map,
                   params |-> params, X |-> X, Y |-> Y,
                   features_X |-> DeterministicMap(made.feature_map, X, params).features,
                   features_Y |-> DeterministicMap(made.feature_map, Y, params).features,
                   K |-> KarhunenLoeveK(made.kernel, params, X, Y)]
    /\ UNCHANGED <<prog, gp, la, circ, util, md, hyp, call, result, fmcall, fmout, heap, sv>>

(***************************************************************************)
(* Random state.  A key is a value; a sampling call takes a key and        *)
(* returns the advanced key with the sample, which is a function of the    *)
(* key it was given.                                                       *)
(***************************************************************************)
MaxPhases == 2       \* feature maps use 1 .. MaxPhases random phases
MaxLambda == 1       \* sampled spectral frequencies are 0 .. MaxLambda

NextKey(key) == (key + 1) % (MaxKey + 1)

\* space.random(key, number) -> key, points [number]
space_random(key, number) ==
    [key |-> NextKey(key),
     sample |-> [o \in 1 .. number |-> (key + o) % (MaxPoint + 1)]]

\* space.random_phases(key, number) -> key, phases [number]
space_random_phases(key, number) ==
    [key |-> NextKey(key),
     sample |-> [o \in 1 .. number |-> (2 * key + o) % (MaxPoint + 1)]]

\* base_density_sample(key, (number,), params, dimension) -> key, lambda [number]
base_density_sample(key, number, params, dimension) ==
    [key |-> NextKey(key),
     sample |-> [o \in 1 .. number |->
                    (key * o + params.lengthscale + dimension) % (MaxLambda + 1)]]

\* space.power_function(lambda, x, phase): a complex number, never zero.
power_function(lambda, x, phase) ==
    [re |-> 1 + ((x + phase + lambda) % 2),
     im |-> ((x * phase + lambda) % 3) - 1]

\* space.inv_harish_chandra(lambda): vanishes at zero frequency.
inv_harish_chandra(lambda) == lambda

(***************************************************************************)
(* Floating-point division by a square root: x / sqrt(s).  sqrt(0) is 0,   *)
(* 0 / 0 is NaN and x / 0 is infinite; otherwise the quotient is kept      *)
(* exactly, as the numerator with the square of the denominator.           *)
(***************************************************************************)
DivideBySqrt(x, s) ==
    IF s # 0 THEN [kind |-> "finite", num |-> x, den_squared |-> s]
    ELSE IF x = 0 THEN [kind |-> "nan", num |-> 0, den_squared |-> 0]
    ELSE [kind |-> "inf", num |-> x, den_squared |-> 0]

IsFinite(v) == v.kind = "finite"

(***************************************************************************)
(* random_phase_feature_map_noncompact(space, num_random_phases)._map      *)
(***************************************************************************)
\* The sampling calls with the caller's key handed to both of them.
NoncompactSamplesReuseKey(fm, params, key) ==
    LET first == space_random_phases(key, fm.num)
        second == base_density_sample(key, fm.num, params, SpaceDimension)
    IN  [samplers |->
            << [fn |-> "space.random_phases", key_in |-> key,
                key_out |-> first.key],
               [fn |-> "base_density_sample", key_in |-> key,
                key_out |-> second.key] >>,
         random_phases |-> first.sample,
         random_lambda |-> second.sample,
         key |-> second.key]

\* The sampling calls of the map, in order, each with the key it is given
\* and the key it returns.
NoncompactSamples(fm, params, key) ==
    LET first == space_random_phases(key, fm.num)
        second == base_density_sample(first.key, fm.num, params, SpaceDimension)
    IN  [samplers |->
            << [fn |-> "space.random_phases", key_in |-> key,
                key_out |-> first.key],
               [fn |-> "base_density_sample", key_in |-> first.key,
                key_out |-> second.key] >>,
         random_phases |-> first.sample,
         random_lambda |-> second.sample,
         key |-> second.key]

\* out = concat(real(p) * c, imag(p) * c); out / sqrt(sum(out ** 2))
NoncompactFeatures(fm, X, random_phases, random_lambda) ==
    LET O == fm.num
        p(n, o) == power_function(random_lambda[o], X[n], random_phases[o])
        c(o) == inv_harish_chandra(random_lambda[o])
        out == [n \in 1 .. Len(X) |-> [k \in 1 .. 2 * O |->
                   IF k <= O THEN p(n, k).re * c(k)
                   ELSE p(n, k - O).im * c(k - O)]]
        normalizer_squared ==
            [n \in 1 .. Len(X) |->
                SumSeq([k \in 1 .. 2 * O |-> out[n][k] * out[n][k]])]
    IN  [n \in 1 .. Len(X) |-> [k \in 1 .. 2 * O |->
            DivideBySqrt(out[n][k], normalizer_squared[n])]]

RandomPhaseMapNoncompact(fm, X, params, key) ==
    LET drawn == NoncompactSamples(fm, params, key)
    IN  [samplers |-> drawn.samplers,
         features |-> NoncompactFeatures(fm, X, drawn.random_phases,
                                         drawn.random_lambda),
         context |-> [has_key |-> TRUE, key |-> drawn.key]]

(***************************************************************************)
(* random_phase_feature_map_compact(space, kernel, num_random_phases)._map *)
(***************************************************************************)
random_phase_feature_map_compact(space, kernel, num_random_phases) ==
    [kind |-> "random_phase_feature_map_compact", space |-> space,
     kernel |-> kernel, num |-> num_random_phases]

\* Phi.phi_product(X, random_phases): per level, the addition theorem
\* between a point and a random phase.
phi_product(x, phase, level, num) == addition_theorem(x, phase, level, num)

RandomPhaseMapCompact(fm, X, params, key) ==
    LET first == space_random(key, fm.num)
        L == fm.kernel.num
        eigenvalues == get_eigenvalues(L)
        spectrum == [l \in 1 .. L |->
                        MaternSpectrum(eigenvalues[l], params.nu,
                                       params.lengthscale)]
        weights == [l \in 1 .. L |-> RSqrt(spectrum[l])]
    IN  [samplers |->
            << [fn |-> "space.random", key_in |-> key, key_out |-> first.key] >>,
         features |->
            [n \in 1 .. Len(X) |-> [k \in 1 .. fm.num * L |->
                LET o == ((k - 1) \div L) + 1
                    l == ((k - 1) % L) + 1
                IN  RMul(RInt(phi_product(X[n], first.sample[o], l, L)),
                         weights[l])]],
         context |-> [has_key |-> TRUE, key |-> first.key]]

GenericNoncompact == [cls |-> "NoncompactSymmetricSpace", num_vertices |-> 0]
GenericCompact == [cls |-> "DiscreteSpectrumSpace", num_vertices |-> 0]

NoMapCall == [map |-> [kind |-> "None"]]
NoMapOut == [samplers |-> <<>>]

\* The first call of the noncompact random-phase map, with any key of the
\* caller's.
CallNoncompactMap ==
    /\ prog = "feature_maps"
    /\ fmcall = NoMapCall
    /\ \E O \in 1 .. MaxPhases, X \in Batches, params \in ParamsSet, key \in Keys :
        LET fm == random_phase_feature_map_noncompact(GenericNoncompact, O)
        IN  /\ fmcall' = [map |-> fm, X |-> X, params |-> params, key |-> key]
            /\ fmout' = RandomPhaseMapNoncompact(fm, X, params, key)
    /\ UNCHANGED <<prog, gp, la, circ, util, md, hyp, call, result, kl, heap, sv>>

\* The first call of the compact random-phase map.
CallCompactMap ==
    /\ prog = "feature_maps"
    /\ fmcall = NoMapCall
    /\ \E O \in 1 .. MaxPhases, L \in 1 .. MaxLevels, X \in Batches,
          params \in ParamsSet, key \in Keys :
        LET kernel == MaternKarhunenLoeveKernel(GenericCompact, L, FALSE)
            fm == random_phase_feature_map_compact(GenericCompact, kernel, O)
        IN  /\ fmcall' = [map |-> fm, X |-> X, params |-> params, key |-> key]
            /\ fmout' = RandomPhaseMapCompact(fm, X, params, key)
    /\ UNCHANGED <<prog, gp, la, circ, util, md, hyp, call, result, kl, heap, sv>>

\* A later call of the same map on the same points: the caller owns the
\* key and passes on the one the previous call returned in its context.
CallMapAgain ==
    /\ prog = "feature_maps"
    /\ fmcall # NoMapCall
    /\ LET key == fmout.context.key
       IN  /\ fmcall' = [fmcall EXCEPT !.key = key]
           /\ fmout' =
                 IF fmcall.map.kind = "random_phase_feature_map_noncompact"
                 THEN RandomPhaseMapNoncompact(fmcall.map, fmcall.X,
                                               fmcall.params, key)
                 ELSE RandomPhaseMapCompact(fmcall.map, fmcall.X,
                                            fmcall.params, key)
    /\ UNCHANGED <<prog, gp, la, circ, util, md, hyp, call, result, kl, heap, sv>>

(***************************************************************************)
(* set_value(a, index, value) on dense (numpy) and sparse (scipy) arrays.  *)
(* Arrays are objects: the heap maps an identity to the array's contents,  *)
(* so that two names of one object are told apart from two equal arrays.   *)
(***************************************************************************)
MaxObjects == 2      \* at most MaxObjects arrays are alive
ArrayLen == 2        \* arrays hold ArrayLen entries
MaxValue == 1        \* entries and written values are 0 .. MaxValue

Values == 0 .. MaxValue
Free == [kind |-> "free"]

DenseArrays == {[kind |-> "dense", data |-> d] : d \in [1 .. ArrayLen -> Values]}

\* A sparse array stores some of its entries; the others are zero.
SparseArrays ==
    UNION {{[kind |-> "sparse", n |-> ArrayLen, stored |-> st] :
                st \in [idx -> Values \ {0}]} : idx \in SUBSET (1 .. ArrayLen)}

ArrayLength(a) == IF a.kind = "dense" THEN Len(a.data) ELSE a.n

\* The entries of an array, whatever its representation.
Entries(a) ==
    IF a.kind = "dense" THEN a.data
    ELSE [i \in 1 .. a.n |-> IF i \in DOMAIN a.stored THEN a.stored[i] ELSE 0]

\* The position (1-based) a Python index names in an array of length n;
\* 0 when the index is out of range.
Position(index, n) ==
    IF 0 <= index /\ index < n THEN index + 1
    ELSE IF -n <= index /\ index < 0 THEN n + index + 1
    ELSE 0

\* a[index] = value, on the contents of one array.
SetItem(a, pos, value) ==
    IF a.kind = "dense" THEN [a EXCEPT !.data[pos] = value]
    ELSE [a EXCEPT !.stored =
            [i \in DOMAIN a.stored \cup {pos} |->
                IF i = pos THEN value ELSE a.stored[i]]]

FreshObject(h) == CHOOSE o \in DOMAIN h : h[o] = Free

\* set_value without the copy: the write lands in the caller's array.
set_value_in_place(h, a, index, value) ==
    LET pos == Position(index, ArrayLength(h[a]))
    IN  IF pos = 0
        THEN [status |-> "IndexError", heap |-> h, ret |-> 0]
        ELSE [status |-> "ok",
              heap |-> [h EXCEPT ![a] = SetItem(h[a], pos, value)],
              ret |-> a]

\* a = a.copy(); a[index] = value; return a
set_value(h, a, index, value) ==
    LET new == FreshObject(h)
        copied == [h EXCEPT ![new] = h[a]]
        pos == Position(index, ArrayLength(copied[new]))
    IN  IF pos = 0
        THEN [status |-> "IndexError", heap |-> h, ret |-> 0]
        ELSE [status |-> "ok",
              heap |-> [copied EXCEPT ![new] = SetItem(copied[new], pos, value)],
              ret |-> new]

Live(h) == {o \in DOMAIN h : h[o] # Free}

NoSetValue == [called |-> FALSE]

\* A caller holding array a calls set_value(a, index, value).
SetValueCall ==
    /\ prog = "set_value"
    /\ ~sv.called
    /\ \E o \in DOMAIN heap : heap[o] = Free
    /\ \E a \in Live(heap), index \in -ArrayLen - 1 .. ArrayLen, value \in Values :
        LET r == set_value(heap, a, index, value)
        IN  /\ heap' = r.heap
            /\ sv' = [called |-> TRUE, status |-> r.status, inp |-> a,
                      out |-> r.ret, index |-> index, value |-> value,
                      before |-> heap[a], mutated |-> FALSE]
    /\ UNCHANGED <<prog, gp, la, circ, util, md, hyp, call, result, fmcall, fmout, kl>>

\* The caller then writes into the array set_value returned, in place.
MutateReturned ==
    /\ prog = "set_value"
    /\ sv.called
    /\ sv.status = "ok"
    /\ ~sv.mutated
    /\ \E pos \in 1 .. ArrayLen, value \in Values :
        /\ heap' = [heap EXCEPT ![sv.out] = SetItem(heap[sv.out], pos, value)]
        /\ heap' # heap
    /\ sv' = [sv EXCEPT !.mutated = TRUE]
    /\ UNCHANGED <<prog, gp, la, circ, util, md, hyp, call, result, fmcall, fmout, kl>>

(***************************************************************************)
(* Sparse linear algebra of lab_extras: eigenpairs and degree.             *)
(*                                                                         *)
(* A matrix is dense (a numpy array) or sparse (a scipy.sparse matrix).    *)
(* The symmetric PSD matrices handed to eigenpairs are diagonal with       *)
(* integer entries 0 .. MaxEigenvalue, so that the eigenvalues are the     *)
(* diagonal entries and the eigenvector of entry i is the unit vector e_i. *)
(***************************************************************************)
MaxDim == 3          \* matrices are n x n with n in 1 .. MaxDim
MaxEigenvalue == 2   \* diagonal entries range over 0 .. MaxEigenvalue

\* The symmetric PSD matrices L handed to eigenpairs.
PSDMatrices ==
    UNION {{[kind |-> kd, n |-> n, diag |-> d] :
                kd \in {"dense", "sparse"},
                d \in [1 .. n -> 0 .. MaxEigenvalue]} :
           n \in 1 .. MaxDim}

\* sp.issparse(L)
issparse(L) == L.kind = "sparse"

\* L.toarray(): the same matrix as a dense array.
toarray(L) == [L EXCEPT !.kind = "dense"]

UnitVector(n, i) == [j \in 1 .. n |-> IF j = i THEN 1 ELSE 0]

\* sigma = 1e-8, as the integer 1 / sigma.
SIGMA_INVERSE == 100000000

\* The index sets of k eigenvalues nearest to sigma (more than one set
\* when eigenvalues tie); |lambda - sigma| is taken in units of sigma.
NearestToSigma(L, k) ==
    {S \in SUBSET (1 .. L.n) :
        /\ Cardinality(S) = k
        /\ \A i \in S : \A j \in (1 .. L.n) \ S :
              Abs(L.diag[i] * SIGMA_INVERSE - 1)
                  <= Abs(L.diag[j] * SIGMA_INVERSE - 1)}

\* The indices of S by ascending eigenvalue.
RECURSIVE AscendingOrder(_, _)
AscendingOrder(S, d) ==
    IF S = {} THEN <<>>
    ELSE LET m == CHOOSE i \in S :
                    \A j \in S : d[i] < d[j] \/ (d[i] = d[j] /\ i <= j)
         IN  <<m>> \o AscendingOrder(S \ {m}, d)

EigenResult(L, S) ==
    LET order == AscendingOrder(S, L.diag)
    IN  [status |-> "ok",
         w |-> [p \in 1 .. Len(order) |-> L.diag[order[p]]],
         v |-> [p \in 1 .. Len(order) |-> UnitVector(L.n, order[p])]]

EigenError(name) == [status |-> name, w |-> <<>>, v |-> <<>>]

\* sp.linalg.eigsh(L, k, sigma=1e-8): shift-invert mode with which='LM',
\* the k eigenvalues nearest to sigma, ascending.  k <= 0 is a ValueError;
\* k >= n falls back to the dense eigh (all n eigenpairs), which a sparse
\* matrix refuses with a TypeError; the Lanczos iteration may fail to
\* converge.  S is the index set ARPACK converges to.
eigsh(L, k, converges, S) ==
    IF k <= 0 THEN EigenError("ValueError")
    ELSE IF k >= L.n
    THEN IF issparse(L) THEN EigenError("TypeError")
         ELSE EigenResult(L, 1 .. L.n)
    ELSE IF ~converges THEN EigenError("ArpackNoConvergence")
    ELSE EigenResult(L, S)

\* eigenpairs with a sparse L converted whatever k is.
EigenpairsAlwaysDensifies(L, k, converges, S) ==
    LET densify == issparse(L)
        L1 == IF densify THEN toarray(L) ELSE L
    IN  [converted |-> densify, solved |-> L1.kind, solver_calls |-> 1,
         out |-> eigsh(L1, k, converges, S)]

\* eigenpairs(L, k): the conversion, the representation the solver is
\* given, the number of eigsh calls and what eigsh returns or raises.
eigenpairs(L, k, converges, S) ==
    LET densify == issparse(L) /\ k = L.n
        L1 == IF densify THEN toarray(L) ELSE L
    IN  [converted |-> densify, solved |-> L1.kind, solver_calls |-> 1,
         out |-> eigsh(L1, k, converges, S)]

\* Adjacency matrices a: simple undirected graphs on n vertices, given by
\* their edges (i, j), i < j, for the entries a[i, j] = a[j, i] = 1.
Adjacencies ==
    UNION {{[kind |-> kd, n |-> n, edges |-> E] :
                kd \in {"dense", "sparse"},
                E \in SUBSET {e \in (1 .. n) \X (1 .. n) : e[1] < e[2]}} :
           n \in 1 .. MaxDim}

\* a.sum(axis=0): the column sums.
ColumnSums(a) ==
    [j \in 1 .. a.n |->
        Cardinality({i \in 1 .. a.n :
                        <<i, j>> \in a.edges \/ <<j, i>> \in a.edges})]

\* degree(a): sp.spdiags(d, 0, d.size, d.size) for a sparse a, np.diag(d)
\* for a dense one.
degree(a) ==
    LET d == ColumnSums(a)
    IN  IF issparse(a)
        THEN [kind |-> "sparse", n |-> Len(d), diag |-> d]
        ELSE [kind |-> "dense", n |-> Len(d), diag |-> d]

\* The value of la, util and hyp before any call, and of circ and md in
\* behaviours that do not exercise them.
NoCallYet == [fn |-> "none"]

\* One call eigenpairs(L, k).
Eigenpairs ==
    /\ prog = "linalg"
    /\ la = NoCallYet
    /\ \E L \in PSDMatrices, k \in 0 .. MaxDim + 1, converges \in BOOLEAN :
        /\ (k <= 0 \/ k >= L.n) => converges
        /\ \E S \in (IF 0 < k /\ k < L.n THEN NearestToSigma(L, k)
                     ELSE {1 .. L.n}) :
            la' = [fn |-> "eigenpairs", L |-> L, k |-> k,
                   ret |-> eigenpairs(L, k, converges, S)]
    /\ UNCHANGED <<prog, gp, call, result, fmcall, fmout, kl, heap, sv, circ,
                   util, md, hyp>>

\* One call degree(a).
Degree ==
    /\ prog = "linalg"
    /\ la = NoCallYet
    /\ \E a \in Adjacencies :
        la' = [fn |-> "degree", a |-> a, ret |-> degree(a)]
    /\ UNCHANGED <<prog, gp, call, result, fmcall, fmout, kl, heap, sv, circ,
                   util, md, hyp>>

\* B.any for a sparse array: bool((a == True).sum()).  a == True holds at
\* the entries equal to 1, sum counts them and bool asks for a count other
\* than zero.
sparse_any(a) ==
    LET equal_true == [i \in 1 .. a.n |-> a.diag[i] = 1]
        sum == Cardinality({i \in 1 .. a.n : equal_true[i]})
    IN  sum # 0

\* One call B.any(a) on a sparse array.
SparseAny ==
    /\ prog = "linalg"
    /\ la = NoCallYet
    /\ \E a \in {L \in PSDMatrices : issparse(L)} :
        la' = [fn |-> "any", a |-> a, ret |-> sparse_any(a)]
    /\ UNCHANGED <<prog, gp, call, result, fmcall, fmout, kl, heap, sv, circ,
                   util, md, hyp>>

(***************************************************************************)
(* The circle's eigenfunction basis, SinCosEigenfunctions.                 *)
(*                                                                         *)
(* Points of the circle are the four unit vectors at quarter turns, so     *)
(* that cos and sin of every multiple of their angles are -1, 0 or 1.  A   *)
(* value a + b sqrt(2) with integers a, b is the record [a, b].            *)
(***************************************************************************)
MaxEigenfunctions == 5  \* eigenfunction counts range over -Max .. Max
MaxCircleBatch == 2     \* point sets on the circle hold 1 .. Max points

CirclePoints == {<<1, 0>>, <<0, 1>>, <<-1, 0>>, <<0, -1>>}

\* cartesian_to_polar(X): atan2(X[:, 1], X[:, 0]), in quarter turns.
cartesian_to_polar(X) ==
    [n \in 1 .. Len(X) |->
        IF X[n] = <<1, 0>> THEN 0
        ELSE IF X[n] = <<0, 1>> THEN 1
        ELSE IF X[n] = <<-1, 0>> THEN 2
        ELSE -1]

\* cos and sin of q quarter turns.
CosQuarter(q) == IF q % 4 = 0 THEN 1 ELSE IF q % 4 = 2 THEN -1 ELSE 0
SinQuarter(q) == IF q % 4 = 1 THEN 1 ELSE IF q % 4 = 3 THEN -1 ELSE 0

One == [a |-> 1, b |-> 0]
TimesSqrt2(c) == [a |-> 0, b |-> c]

NoBasis == [num_eigenfunctions |-> 0, num_levels |-> 0]

\* SinCosEigenfunctions.__init__ accepting every count of at least 1.
SinCosInitWithoutParityCheck(num) ==
    IF ~(num >= 1)
    THEN [status |-> "AssertionError", basis |-> NoBasis]
    ELSE [status |-> "ok",
          basis |-> [num_eigenfunctions |-> num,
                     num_levels |-> (num \div 2) + 1]]

\* SinCosEigenfunctions.__init__(num_eigenfunctions): two assertions, then
\* the two attributes.  (% and \div round towards minus infinity, as
\* Python's % and // do.)
SinCosEigenfunctions(num) ==
    IF ~(num % 2 = 1)
    THEN [status |-> "AssertionError", basis |-> NoBasis]
    ELSE IF ~(num >= 1)
    THEN [status |-> "AssertionError", basis |-> NoBasis]
    ELSE [status |-> "ok",
          basis |-> [num_eigenfunctions |-> num,
                     num_levels |-> (num \div 2) + 1]]

\* The columns of a level without the sine.
LevelValuesCosOnly(level, theta) ==
    IF level = 0 THEN <<One>>
    ELSE <<TimesSqrt2(CosQuarter(level * theta))>>

\* The columns one level appends to values, for one angle.
LevelValues(level, theta) ==
    IF level = 0 THEN <<One>>
    ELSE <<TimesSqrt2(CosQuarter(level * theta)),
           TimesSqrt2(SinQuarter(level * theta))>>

RECURSIVE ConcatLevels(_, _, _)
ConcatLevels(level, num_levels, theta) ==
    IF level >= num_levels THEN <<>>
    ELSE LevelValues(level, theta)
         \o ConcatLevels(level + 1, num_levels, theta)

\* SinCosEigenfunctions.__call__(X): tf.concat(values, axis=1), row by row.
SinCosCall(basis, X) ==
    LET theta == cartesian_to_polar(X)
    IN  [n \in 1 .. Len(X) |-> ConcatLevels(0, basis.num_levels, theta[n])]

\* SinCosEigenfunctions._addition_theorem(X, X2), [N, N2, L].
SinCosAdditionTheorem(basis, X, X2) ==
    LET theta == cartesian_to_polar(X)
        theta2 == cartesian_to_polar(X2)
        per_level == num_eigenfunctions_per_level(basis.num_levels)
    IN  [n \in 1 .. Len(X) |->
            [n2 \in 1 .. Len(X2) |->
                [l \in 1 .. basis.num_levels |->
                    per_level[l]
                        * CosQuarter((l - 1) * (theta[n] - theta2[n2]))]]]

\* _addition_theorem_diag with the first level counted twice as the others.
SinCosAdditionTheoremDiagUniform(basis, X) ==
    [n \in 1 .. Len(X) |-> [l \in 1 .. basis.num_levels |-> 2]]

\* SinCosEigenfunctions._addition_theorem_diag(X), [N, L].
SinCosAdditionTheoremDiag(basis, X) ==
    LET per_level == num_eigenfunctions_per_level(basis.num_levels)
    IN  [n \in 1 .. Len(X) |->
            [l \in 1 .. basis.num_levels |-> 1 * per_level[l]]]

\* SinCosEigenfunctions(num_eigenfunctions).
ConstructBasis ==
    /\ prog = "circle"
    /\ circ.status = "none"
    /\ \E num \in -MaxEigenfunctions .. MaxEigenfunctions :
        LET r == SinCosEigenfunctions(num)
        IN  circ' = [circ EXCEPT !.status = r.status, !.arg = num,
                                 !.basis = r.basis]
    /\ UNCHANGED <<prog, gp, call, result, fmcall, fmout, kl, heap, sv, la,
                   util, md, hyp>>

\* eigenfunctions(X).
CallBasis ==
    /\ prog = "circle"
    /\ circ.status = "ok"
    /\ "call" \notin circ.done
    /\ circ' = [circ EXCEPT !.done = @ \cup {"call"},
                            !.phi = SinCosCall(circ.basis, circ.X)]
    /\ UNCHANGED <<prog, gp, call, result, fmcall, fmout, kl, heap, sv, la,
                   util, md, hyp>>

\* eigenfunctions._addition_theorem(X, X2).
AdditionTheorem ==
    /\ prog = "circle"
    /\ circ.status = "ok"
    /\ "addition_theorem" \notin circ.done
    /\ circ' = [circ EXCEPT
                  !.done = @ \cup {"addition_theorem"},
                  !.at = SinCosAdditionTheorem(circ.basis, circ.X, circ.X2)]
    /\ UNCHANGED <<prog, gp, call, result, fmcall, fmout, kl, heap, sv, la,
                   util, md, hyp>>

\* eigenfunctions._addition_theorem_diag(X).
AdditionTheoremDiag ==
    /\ prog = "circle"
    /\ circ.status = "ok"
    /\ "addition_theorem_diag" \notin circ.done
    /\ circ' = [circ EXCEPT
                  !.done = @ \cup {"addition_theorem_diag"},
                  !.at_diag = SinCosAdditionTheoremDiag(circ.basis, circ.X)]
    /\ UNCHANGED <<prog, gp, call, result, fmcall, fmout, kl, heap, sv, la,
                   util, md, hyp>>

(***************************************************************************)
(* utils/utils.py: chain and ordered_pairwise_differences.                 *)
(***************************************************************************)
MaxChainLen == 3     \* chain takes 1 .. MaxChainLen elements
MaxRepetition == 2   \* each repeated 1 .. MaxRepetition times
MaxElement == 2      \* array entries range over 0 .. MaxElement
MaxRows == 1         \* X of ordered_pairwise_differences has 1 .. MaxRows rows
MaxCols == 3         \* and 1 .. MaxCols columns

\* B.expand_dims(X, -2) - B.expand_dims(X, -1) with the operands swapped.
PairwiseDifferencesTransposed(X) ==
    [b \in 1 .. Len(X) |->
        [i \in 1 .. Len(X[b]) |->
            [j \in 1 .. Len(X[b]) |-> X[b][i] - X[b][j]]]]

\* B.expand_dims(X, -2) - B.expand_dims(X, -1), [B, D, D]:
\* diffX[b, i, j] = X[b, j] - X[b, i].
PairwiseDifferences(X) ==
    [b \in 1 .. Len(X) |->
        [i \in 1 .. Len(X[b]) |->
            [j \in 1 .. Len(X[b]) |-> X[b][j] - X[b][i]]]]

RECURSIVE TrilRow(_, _, _)
TrilRow(i, j, last) ==
    IF j > last THEN <<>> ELSE <<<<i, j>>>> \o TrilRow(i, j + 1, last)

\* np.tril_indices(n, k) from row i on: the positions (i, j) with
\* j <= i + k, row by row.
RECURSIVE tril_indices(_, _, _)
tril_indices(i, n, k) ==
    IF i > n THEN <<>>
    ELSE TrilRow(i, 1, Min(n, i + k)) \o tril_indices(i + 1, n, k)

\* B.tril_to_vec(a, offset) on the last two axes of a [B, D, D] array.
tril_to_vec(a, offset) ==
    [b \in 1 .. Len(a) |->
        LET idx == tril_indices(1, Len(a[b]), offset)
        IN  [p \in 1 .. Len(idx) |-> a[b][idx[p][1]][idx[p][2]]]]

ordered_pairwise_differences(X) == tril_to_vec(PairwiseDifferences(X), -1)

\* One call chain(elements, repetitions).
Chain ==
    /\ prog = "utils"
    /\ util = NoCallYet
    /\ \E n \in 1 .. MaxChainLen :
        \E elements \in [1 .. n -> 0 .. MaxElement],
           repetitions \in [1 .. n -> 1 .. MaxRepetition] :
            util' = [fn |-> "chain", elements |-> elements,
                     repetitions |-> repetitions,
                     out |-> chain(elements, repetitions)]
    /\ UNCHANGED <<prog, gp, call, result, fmcall, fmout, kl, heap, sv, la,
                   circ, md, hyp>>

\* One call ordered_pairwise_differences(X).
OrderedPairwiseDifferences ==
    /\ prog = "utils"
    /\ util = NoCallYet
    /\ \E b \in 1 .. MaxRows, d \in 1 .. MaxCols :
        \E X \in [1 .. b -> [1 .. d -> 0 .. MaxElement]] :
            util' = [fn |-> "ordered_pairwise_differences", X |-> X,
                     out |-> ordered_pairwise_differences(X)]
    /\ UNCHANGED <<prog, gp, call, result, fmcall, fmout, kl, heap, sv, la,
                   circ, md, hyp>>

(***************************************************************************)
(* utils/utils.py: make_deterministic.                                     *)
(*                                                                         *)
(* A key is a generator object whose random state is a number in Keys; the *)
(* caller's key changes state whenever someone draws from it.  A function  *)
(* f is its argument specification: the names of its positional parameters *)
(* in order, and the set of its keyword-only parameters.                   *)
(***************************************************************************)
MaxCalls == 2        \* the wrapped function is called at most MaxCalls times

\* The sequences of distinct names of S.
RECURSIVE Arrangements(_)
Arrangements(S) ==
    {<<>>} \cup UNION {{<<x>> \o t : t \in Arrangements(S \ {x})} : x \in S}

Range(seq) == {seq[i] : i \in 1 .. Len(seq)}

\* inspect.getfullargspec(f) of the functions wrapped.
Functions ==
    {fn \in [args : Arrangements({"X", "params", "key"}),
             kwonlyargs : SUBSET {"key", "normalize"}] :
        ~("key" \in Range(fn.args) /\ "key" \in fn.kwonlyargs)}

\* f_varnames.index("key"), counted from 0.
IndexOf(seq, x) == (CHOOSE i \in 1 .. Len(seq) : seq[i] = x) - 1

\* A key: a generator object in some random state.
Generator(state) == [state |-> state]

\* get_random_state(key): the random state the key is in.
get_random_state(key) == key.state

\* restore_random_state(key, state): a new key in the given random state.
restore_random_state(key, state) == Generator(state)

\* An argument value: the i-th ordinary argument, or a key.
Argument(i) == [kind |-> "arg", v |-> i]
KeyArgument(key) == [kind |-> "key", v |-> key.state]

\* The values the caller passes positionally: one per positional parameter
\* of f other than 'key'.
CallerArgs(f) ==
    [i \in 1 .. Cardinality(Range(f.args) \ {"key"}) |-> Argument(i)]

\* make_deterministic(f, key): the closure deterministic_f with what it
\* captured, or f itself when f has no 'key' parameter.
make_deterministic(f, key) ==
    LET key_argtype ==
            IF "key" \in Range(f.args) THEN "pos"
            ELSE IF "key" \in f.kwonlyargs THEN "kwonly"
            ELSE "None"
        key_position == IF key_argtype = "pos" THEN IndexOf(f.args, "key")
                        ELSE 0
    IN  IF key_argtype = "None"
        THEN [returned |-> "f", f |-> f, key_argtype |-> key_argtype,
              key_position |-> 0, saved_random_state |-> 0]
        ELSE [returned |-> "deterministic_f", f |-> f,
              key_argtype |-> key_argtype, key_position |-> key_position,
              saved_random_state |-> get_random_state(key)]

\* args[:key_position] + (restored_key,) + args[key_position:]; a slice
\* past the end of args stops at the end.
Splice(args, key_position, restored_key) ==
    LET cut == IF key_position < Len(args) THEN key_position ELSE Len(args)
    IN  SubSeq(args, 1, cut) \o <<restored_key>>
            \o SubSeq(args, cut + 1, Len(args))

\* deterministic_f handing f the caller's key as it is now.
DeterministicWithoutRestore(w, key, args, kwargs) ==
    LET restored_key == KeyArgument(key)
    IN  IF w.key_argtype = "kwonly"
        THEN [new_args |-> args,
              kwargs |-> [p \in DOMAIN kwargs \cup {"key"} |->
                            IF p = "key" THEN restored_key ELSE kwargs[p]]]
        ELSE [new_args |-> Splice(args, w.key_position, restored_key),
              kwargs |-> kwargs]

\* deterministic_f(*args, **kwargs): the positional and keyword arguments
\* f is called with.
deterministic_f(w, key, args, kwargs) ==
    LET restored_key ==
            KeyArgument(restore_random_state(key, w.saved_random_state))
    IN  IF w.key_argtype = "kwonly"
        THEN [new_args |-> args,
              kwargs |-> [p \in DOMAIN kwargs \cup {"key"} |->
                            IF p = "key" THEN restored_key ELSE kwargs[p]]]
        ELSE [new_args |-> Splice(args, w.key_position, restored_key),
              kwargs |-> kwargs]

\* The call f(*new_args, **kwargs) as Python binds it: positional values go
\* to f's positional parameters in order, keyword values to the parameters
\* they name.  A parameter given twice, a keyword f does not have, too many
\* positional values or a positional parameter left without a value is a
\* TypeError (f's positional parameters have no defaults).
Bind(f, new_args, kwargs) ==
    LET given(i) == (IF i <= Len(new_args) THEN 1 ELSE 0)
                        + (IF f.args[i] \in DOMAIN kwargs THEN 1 ELSE 0)
    IN  IF \/ Len(new_args) > Len(f.args)
           \/ \E p \in DOMAIN kwargs : p \notin Range(f.args) \cup f.kwonlyargs
           \/ \E i \in 1 .. Len(f.args) : given(i) # 1
        THEN [status |-> "TypeError", bound |-> <<>>]
        ELSE [status |-> "ok",
              bound |-> [p \in Range(f.args) \cup DOMAIN kwargs |->
                            IF p \in DOMAIN kwargs THEN kwargs[p]
                            ELSE new_args[IndexOf(f.args, p) + 1]]]

\* g = make_deterministic(f, key)
MakeDeterministic ==
    /\ prog = "make_deterministic"
    /\ md.stage = "start"
    /\ \E f \in Functions :
        md' = [stage |-> "wrapped", key |-> md.key, key_at_wrap |-> md.key.state,
               calls |-> <<>>, w |-> make_deterministic(f, md.key)]
    /\ UNCHANGED <<prog, gp, call, result, fmcall, fmout, kl, heap, sv, la,
                   circ, util, hyp>>

\* Somebody draws from the caller's key: its random state moves on.
AdvanceKey ==
    /\ prog = "make_deterministic"
    /\ md.stage = "wrapped"
    /\ md' = [md EXCEPT !.key = Generator(NextKey(md.key.state))]
    /\ UNCHANGED <<prog, gp, call, result, fmcall, fmout, kl, heap, sv, la,
                   circ, util, hyp>>

\* g(*args, **kwargs) for the closure g = deterministic_f: the caller gives
\* every parameter of f but 'key' its value, the first few positionally and
\* the others by keyword.
CallDeterministic ==
    /\ prog = "make_deterministic"
    /\ md.stage = "wrapped"
    /\ md.w.returned = "deterministic_f"
    /\ Len(md.calls) < MaxCalls
    /\ \E positional \in 0 .. Len(CallerArgs(md.w.f)) :
        LET names == SelectSeq(md.w.f.args, LAMBDA p : p # "key")
            args == SubSeq(CallerArgs(md.w.f), 1, positional)
            kwargs == [p \in {names[i] : i \in positional + 1 .. Len(names)} |->
                            CallerArgs(md.w.f)[IndexOf(names, p) + 1]]
            c == deterministic_f(md.w, md.key, args, kwargs)
        IN  md' = [md EXCEPT !.calls = Append(@,
                     [args |-> args, kwargs |-> kwargs,
                      new_args |-> c.new_args, new_kwargs |-> c.kwargs,
                      key_then |-> md.key.state,
                      f |-> Bind(md.w.f, c.new_args, c.kwargs)])]
    /\ UNCHANGED <<prog, gp, call, result, fmcall, fmout, kl, heap, sv, la,
                   circ, util, hyp>>

(***************************************************************************)
(* spaces/hyperbolic.py: the shapes of distance and heat_kernel.           *)
(*                                                                         *)
(* An array is its shape, a sequence of axis lengths; ShapeError stands    *)
(* for the exception an operation raises on shapes that do not fit.        *)
(***************************************************************************)
MaxHypBatch == 2     \* point sets of the hyperbolic space hold 1 .. Max points
MaxTimes == 2        \* heat kernel times t hold 1 .. MaxTimes values
MaxQuadrature == 2   \* num_points of the heat kernel integral, 1 .. Max
MaxDimension == 4    \* spaces have dimension 1 .. MaxDimension

ShapeError == <<-1>>

\* B.rank
rank(s) == Len(s)

\* The shape s with 1s in front up to rank n.
PadLeft(s, n) == [i \in 1 .. n |-> IF i <= n - Len(s) THEN 1 ELSE s[i - (n - Len(s))]]

\* The shape of an elementwise operation on arrays of shapes s1 and s2.
Broadcast(s1, s2) ==
    IF s1 = ShapeError \/ s2 = ShapeError THEN ShapeError
    ELSE LET n == IF Len(s1) >= Len(s2) THEN Len(s1) ELSE Len(s2)
             a == PadLeft(s1, n)
             b == PadLeft(s2, n)
         IN  IF \E i \in 1 .. n : a[i] # b[i] /\ a[i] # 1 /\ b[i] # 1
             THEN ShapeError
             ELSE [i \in 1 .. n |-> IF a[i] = 1 THEN b[i] ELSE a[i]]

\* B.expand_dims(a, axis): a new axis of length 1 at position axis
\* (counted from the end when negative).
expand_dims(s, axis) ==
    IF s = ShapeError THEN ShapeError
    ELSE LET at == IF axis >= 0 THEN axis ELSE Len(s) + 1 + axis
         IN  SubSeq(s, 1, at) \o <<1>> \o SubSeq(s, at + 1, Len(s))

\* B.tile(a, *repeats)
tile(s, repeats) ==
    IF s = ShapeError THEN ShapeError
    ELSE LET n == IF Len(s) >= Len(repeats) THEN Len(s) ELSE Len(repeats)
             a == PadLeft(s, n)
             r == PadLeft(repeats, n)
         IN  [i \in 1 .. n |-> a[i] * r[i]]

\* The shape without its last axis (a sum or an integral over it).
DropLast(s) ==
    IF s = ShapeError \/ s = <<>> THEN ShapeError
    ELSE SubSeq(s, 1, Len(s) - 1)

Last(s) == s[Len(s)]

\* Hyperbolic.inner_product(vector_a, vector_b):
\* einsum("...i,...i->...", diagonal * vector_a, vector_b) with diagonal
\* of shape [dim + 1].
inner_product(dimension, vector_a, vector_b) ==
    LET scaled == Broadcast(<<1 + dimension>>, vector_a)
    IN  IF scaled = ShapeError \/ vector_b = <<>> THEN ShapeError
        ELSE IF Last(scaled) # Last(vector_b) THEN ShapeError
        ELSE Broadcast(DropLast(scaled), DropLast(vector_b))

\* Hyperbolic.distance without the promotion of a rank-1 point.
DistanceWithoutExpand(dimension, x1, x2, diag) ==
    LET x1_ == IF diag THEN x1
               ELSE tile(expand_dims(x1, -2), <<1, x2[1], 1>>)
        x2_ == IF diag THEN x2
               ELSE tile(expand_dims(x2, 0), <<x1[1], 1, 1>>)
        sq_norm_1 == inner_product(dimension, x1_, x1_)
        sq_norm_2 == inner_product(dimension, x2_, x2_)
        inner_prod == inner_product(dimension, x1_, x2_)
    IN  Broadcast(inner_prod, Broadcast(sq_norm_1, sq_norm_2))

\* Hyperbolic.distance(x1, x2, diag)
distance(dimension, x1, x2, diag) ==
    LET e1 == IF ~diag /\ rank(x1) = 1 THEN expand_dims(x1, 0) ELSE x1
        e2 == IF ~diag /\ rank(x2) = 1 THEN expand_dims(x2, 0) ELSE x2
        x1_ == IF diag THEN x1
               ELSE tile(expand_dims(e1, -2), <<1, e2[1], 1>>)
        x2_ == IF diag THEN x2
               ELSE tile(expand_dims(e2, 0), <<e1[1], 1, 1>>)
        sq_norm_1 == inner_product(dimension, x1_, x1_)
        sq_norm_2 == inner_product(dimension, x2_, x2_)
        inner_prod == inner_product(dimension, x1_, x2_)
        cosh_angle == Broadcast(inner_prod, Broadcast(sq_norm_1, sq_norm_2))
    IN  cosh_angle

\* The dimension-2 branch of heat_kernel: s_vals of shape (..., 1, S) tiled
\* along the time axis, the integrand, and trapz over the last axis.
HeatKernelDim2(dist, t, num_points) ==
    LET expanded_distance == expand_dims(expand_dims(dist, -1), -1)
        s_vals == Broadcast(<<num_points>>, expanded_distance)
        reshape == [i \in 1 .. rank(s_vals) |->
                        IF i = rank(s_vals) - 1 THEN Last(t) ELSE 1]
        tiled == tile(s_vals, reshape)
        integral_vals ==
            Broadcast(Broadcast(tiled, expand_dims(t, 1)),
                      Broadcast(tiled, expanded_distance))
    IN  DropLast(Broadcast(integral_vals, tiled))

\* numpy's linspace(start, stop, num) over exact rationals.
linspace(start, stop, num) ==
    [i \in 1 .. num |->
        IF num = 1 THEN start
        ELSE RAdd(start,
                  RMul(RInt(i - 1),
                       RDiv(RAdd(stop, RMul(RInt(-1), start)), RInt(num - 1))))]

\* logspace(start, stop, num, base) = base ** linspace(start, stop, num).
\* A value is kept as its exponent: [log |-> r] is base ** r.  heat_kernel
\* calls it with base e and exponents in units of ln 10, so that [log |-> r]
\* is the offset 10 ** r.
logspace(start, stop, num) ==
    LET exponents == linspace(start, stop, num)
    IN  [i \in 1 .. num |-> [log |-> exponents[i]]]

\* heat_kernel with a closed form as its last branch: dimension 2 aside,
\* every dimension is served and none is rejected.
HeatKernelDefaultsToClosedForm(dimension, dist, t, num_points) ==
    IF dimension = 2
    THEN [status |-> "ok", shape |-> HeatKernelDim2(dist, t, num_points),
          formula |-> "quadrature",
          offsets |-> logspace(RInt(-2), RInt(2), num_points)]
    ELSE [status |-> "ok", shape |-> Broadcast(expand_dims(dist, -1), t),
          formula |-> "closed_form", offsets |-> <<>>]

\* Hyperbolic.heat_kernel(distance, t, num_points): the formula used, the
\* quadrature offsets added to the distance (dimension 2: from log(1e-2) =
\* -2 ln 10 to log(100.0) = 2 ln 10) and the shape of the result.
heat_kernel(dimension, dist, t, num_points) ==
    IF dimension = 1
    THEN [status |-> "ok", shape |-> Broadcast(expand_dims(dist, -1), t),
          formula |-> "closed_form", offsets |-> <<>>]
    ELSE IF dimension = 2
    THEN [status |-> "ok", shape |-> HeatKernelDim2(dist, t, num_points),
          formula |-> "quadrature",
          offsets |-> logspace(RInt(-2), RInt(2), num_points)]
    ELSE IF dimension = 3
    THEN [status |-> "ok",
          shape |-> Broadcast(Broadcast(expand_dims(dist, -1), t),
                              expand_dims(dist, -1)),
          formula |-> "closed_form", offsets |-> <<>>]
    ELSE [status |-> "NotImplementedError", shape |-> ShapeError,
          formula |-> "none", offsets |-> <<>>]

\* The integrated kernel: the heat kernel of the pairwise (K) or
\* elementwise (K_diag) distance, integrated over the time axis.
IntegratedKernel(dimension, X, X2, diag, num_times, num_points) ==
    LET dist == distance(dimension, X, X2, diag)
        hk == heat_kernel(dimension, dist, <<num_times>>, num_points)
    IN  [distance |-> dist, heat_kernel |-> hk.shape,
         status |-> hk.status, out |-> DropLast(hk.shape)]

\* The arrays of points of the space of dimension dim: a single point of
\* rank 1, or n points of shape [n, dim + 1].
PointArrays(dim) == {<<dim + 1>>} \cup {<<n, dim + 1>> : n \in 1 .. MaxHypBatch}

\* space.distance(x1, x2, diag)
Distance ==
    /\ prog = "hyperbolic"
    /\ hyp = NoCallYet
    /\ \E dim \in 1 .. MaxDimension, diag \in BOOLEAN :
        \E x1 \in PointArrays(dim), x2 \in PointArrays(dim) :
            hyp' = [fn |-> "distance", dimension |-> dim, x1 |-> x1,
                    x2 |-> x2, diag |-> diag,
                    distance |-> distance(dim, x1, x2, diag)]
    /\ UNCHANGED <<prog, gp, call, result, fmcall, fmout, kl, heap, sv, la,
                   circ, util, md>>

\* space.heat_kernel(distance, t, num_points) on the distance just computed.
HeatKernel ==
    /\ prog = "hyperbolic"
    /\ hyp.fn = "distance"
    /\ hyp.distance # ShapeError
    /\ \E T \in 1 .. MaxTimes, S \in 1 .. MaxQuadrature :
        LET hk == heat_kernel(hyp.dimension, hyp.distance, <<T>>, S)
        IN  hyp' = [fn |-> "heat_kernel", dimension |-> hyp.dimension,
                    x1 |-> hyp.x1, x2 |-> hyp.x2, diag |-> hyp.diag,
                    distance |-> hyp.distance, t |-> <<T>>,
                    num_points |-> S, status |-> hk.status,
                    heat_kernel |-> hk.shape, formula |-> hk.formula,
                    offsets |-> hk.offsets]
    /\ UNCHANGED <<prog, gp, call, result, fmcall, fmout, kl, heap, sv, la,
                   circ, util, md>>

\* kernel.K(params, state, X, X2), X2 = None standing for X.
KernelK ==
    /\ prog = "hyperbolic"
    /\ hyp = NoCallYet
    /\ \E dim \in 1 .. MaxDimension, T \in 1 .. MaxTimes, S \in 1 .. MaxQuadrature,
          none \in BOOLEAN :
        \E X \in PointArrays(dim), Y \in PointArrays(dim) :
            /\ none => Y = X
            /\ LET r == IntegratedKernel(dim, X, Y, FALSE, T, S)
               IN  hyp' = [fn |-> "K", dimension |-> dim, x1 |-> X,
                           x2 |-> Y, x2_is_none |-> none, t |-> <<T>>,
                           status |-> r.status, out |-> r.out]
    /\ UNCHANGED <<prog, gp, call, result, fmcall, fmout, kl, heap, sv, la,
                   circ, util, md>>

\* kernel.K_diag(params, state, X)
KernelKDiag ==
    /\ prog = "hyperbolic"
    /\ hyp = NoCallYet
    /\ \E dim \in 1 .. MaxDimension, T \in 1 .. MaxTimes, S \in 1 .. MaxQuadrature :
        \E X \in PointArrays(dim) :
            LET r == IntegratedKernel(dim, X, X, TRUE, T, S)
            IN  hyp' = [fn |-> "K_diag", dimension |-> dim, x1 |-> X,
                        x2 |-> X, x2_is_none |-> TRUE, t |-> <<T>>,
                        status |-> r.status, out |-> r.out]
    /\ UNCHANGED <<prog, gp, call, result, fmcall, fmout, kl, heap, sv, la,
                   circ, util, md>>

(***************************************************************************)
(* The GPJax frontend (frontends/jax/gpjax.py): a GPJaxGeometricKernel     *)
(* wraps a base kernel and calls its K.  Arguments are tagged values: an   *)
(* array of points, the kernel's state, or None.  Covariance entries are   *)
(* kept symbolic: an entry records the parameters and the two points it    *)
(* was evaluated at, and the variance that scales it.                      *)
(***************************************************************************)
NoneValue == [kind |-> "None"]
KernelState == [kind |-> "state"]
Array(X) == [kind |-> "array", data |-> X]

\* The base kernels a wrapper may be given.  init_params: whether the kernel
\* has a method of that name beside init_params_and_state; uses_state:
\* whether its K reads the state it is handed.
BaseKernels ==
    {[kind |-> "kernel", init_params |-> ip, uses_state |-> us] :
        ip \in BOOLEAN, us \in BOOLEAN}

\* The base kernel's K(params, state, X, Y=None): the [N, M] covariance of X
\* against Y, of X against itself when Y is None.  A kernel that reads its
\* state fails on anything that is not one; X must be an array.
BaseKernelK(kernel, params, state, X, Y) ==
    LET X2 == IF Y.kind = "None" THEN X ELSE Y
    IN  IF \/ kernel.uses_state /\ state.kind # "state"
           \/ X.kind # "array"
           \/ X2.kind # "array"
        THEN [status |-> "TypeError", value |-> <<>>]
        ELSE [status |-> "ok",
              value |-> [i \in 1 .. Len(X.data) |->
                          [j \in 1 .. Len(X2.data) |->
                              [variance |-> 1,
                               nu |-> params.nu,
                               lengthscale |-> params.lengthscale,
                               x |-> X.data[i], y |-> X2.data[j]]]]]

\* GPJaxGeometricKernel.__post_init__: the wrapper after construction.
GPJaxPostInit(base_kernel, variance) ==
    IF base_kernel.kind = "None"
    THEN [status |-> "ValueError"]
    ELSE IF ~base_kernel.init_params
    THEN [status |-> "AttributeError"]
    ELSE [status |-> "ok", base_kernel |-> base_kernel,
          nu |-> InitParams.nu, lengthscale |-> InitParams.lengthscale,
          variance |-> variance]

\* GPJaxGeometricKernel.__call__(x, y): K is handed three positional
\* arguments, which Python binds to K's first three parameters; the fourth
\* keeps its default.
GPJaxCall(self, x, y) ==
    LET args == <<[lengthscale |-> self.lengthscale, nu |-> self.nu], x, y>>
        k == BaseKernelK(self.base_kernel, args[1], args[2], args[3],
                         IF Len(args) >= 4 THEN args[4] ELSE NoneValue)
    IN  IF k.status # "ok" THEN k
        ELSE [status |-> "ok",
              value |-> [i \in DOMAIN k.value |->
                          [j \in DOMAIN k.value[i] |->
                              [k.value[i][j] EXCEPT
                                  !.variance = self.variance * @]]]]

\* A wrapper is constructed around a base kernel, or around None.
ConstructGPJax ==
    /\ prog = "gpjax"
    /\ gp = NoCallYet
    /\ \E base_kernel \in BaseKernels \cup {NoneValue},
          variance \in 1 .. MaxLengthscale :
        gp' = [fn |-> "init", self |-> GPJaxPostInit(base_kernel, variance)]
    /\ UNCHANGED <<prog, call, result, fmcall, fmout, kl, heap, sv, la, circ,
                   util, md, hyp>>

\* Training replaces the wrapper's parameters.
TrainGPJax ==
    /\ prog = "gpjax"
    /\ gp # NoCallYet
    /\ gp.fn = "init"
    /\ gp.self.status = "ok"
    /\ \E nu \in 1 .. MaxLengthscale, lengthscale \in 1 .. MaxLengthscale :
        gp' = [fn |-> "train",
               self |-> [gp.self EXCEPT !.nu = nu,
                                        !.lengthscale = lengthscale]]
    /\ UNCHANGED <<prog, call, result, fmcall, fmout, kl, heap, sv, la, circ,
                   util, md, hyp>>

\* The wrapper is called on two point sets.
CallGPJax ==
    /\ prog = "gpjax"
    /\ gp # NoCallYet
    /\ gp.fn \in {"init", "train"}
    /\ gp.self.status = "ok"
    /\ \E x \in Batches, y \in Batches :
        gp' = [fn |-> "call", self |-> gp.self, x |-> x, y |-> y,
               ret |-> GPJaxCall(gp.self, Array(x), Array(y))]
    /\ UNCHANGED <<prog, call, result, fmcall, fmout, kl, heap, sv, la, circ,
                   util, md, hyp>>

(***************************************************************************)
(* spaces/stiefel.py: hook_content_formula.                                *)
(*                                                                         *)
(* A partition lmd is a non-increasing sequence of non-negative parts; its *)
(* diagram has lmd[r] cells in row r.  Rows and columns are numbered from  *)
(* 0 as the code numbers them.                                             *)
(***************************************************************************)
MaxParts == 3        \* partitions have 1 .. MaxParts parts
MaxPartSize == 3     \* each part is 0 .. MaxPartSize
MaxAlphabet == 3     \* n ranges over 1 .. MaxAlphabet

Partitions ==
    UNION {{lmd \in [1 .. len -> 0 .. MaxPartSize] :
                \A r \in 1 .. len - 1 : lmd[r] >= lmd[r + 1]} :
           len \in 1 .. MaxParts}

RECURSIVE ProductSeq(_)
ProductSeq(seq) == IF seq = <<>> THEN 1 ELSE Head(seq) * ProductSeq(Tail(seq))

\* The cells (id_row, id_col) in the order the two loops visit them.
Cells(lmd) ==
    [c \in 1 .. SumSeq(lmd) |->
        LET row == CHOOSE r \in 1 .. Len(lmd) :
                       /\ SumSeq(SubSeq(lmd, 1, r - 1)) < c
                       /\ c <= SumSeq(SubSeq(lmd, 1, r))
        IN  [id_row |-> row - 1,
             id_col |-> c - SumSeq(SubSeq(lmd, 1, row - 1)) - 1]]

\* hook_content_formula with the row added to the numerator's factor
\* instead of subtracted.
HookContentRowAdded(lmd, n) ==
    LET l_cols == [i \in 1 .. lmd[1] |->
                      Cardinality({r \in 1 .. Len(lmd) : lmd[r] >= i})]
        cells == Cells(lmd)
        numer == ProductSeq([c \in 1 .. Len(cells) |->
                                n + cells[c].id_col + cells[c].id_row])
        denom == ProductSeq([c \in 1 .. Len(cells) |->
                                l_cols[cells[c].id_col + 1]
                                    + lmd[cells[c].id_row + 1]
                                    - cells[c].id_row - cells[c].id_col - 1])
    IN  IF denom = 0
        THEN [status |-> "ZeroDivisionError", numer |-> numer, denom |-> denom]
        ELSE [status |-> "ok", numer |-> numer, denom |-> denom,
              value |-> Rat(numer, denom)]

\* hook_content_formula(lmd, n): numer / denom, a true division, kept as
\* the exact quotient.
hook_content_formula(lmd, n) ==
    LET l_cols == [i \in 1 .. lmd[1] |->
                      Cardinality({r \in 1 .. Len(lmd) : lmd[r] >= i})]
        cells == Cells(lmd)
        numer == ProductSeq([c \in 1 .. Len(cells) |->
                                n + cells[c].id_col - cells[c].id_row])
        denom == ProductSeq([c \in 1 .. Len(cells) |->
                                l_cols[cells[c].id_col + 1]
                                    + lmd[cells[c].id_row + 1]
                                    - cells[c].id_row - cells[c].id_col - 1])
    IN  IF denom = 0
        THEN [status |-> "ZeroDivisionError", numer |-> numer, denom |-> denom]
        ELSE [status |-> "ok", numer |-> numer, denom |-> denom,
              value |-> Rat(numer, denom)]

\* One call hook_content_formula(lmd, n).
HookContentFormula ==
    /\ prog = "stiefel"
    /\ util = NoCallYet
    /\ \E lmd \in Partitions, n \in 1 .. MaxAlphabet :
        util' = [fn |-> "hook_content_formula", lmd |-> lmd, n |-> n,
                 ret |-> hook_content_formula(lmd, n)]
    /\ UNCHANGED <<prog, gp, call, result, fmcall, fmout, kl, heap, sv, la,
                   circ, md, hyp>>

(***************************************************************************)
(* Initial states and specifications, one per sub-system.                  *)
(***************************************************************************)
EmptyHeap == [o \in 1 .. MaxObjects |-> Free]

\* Every sub-system but the named one is idle.
IdleExcept(name) ==
    /\ call = NoCall
    /\ result = NoResult
    /\ fmcall = NoMapCall
    /\ fmout = NoMapOut
    /\ kl = NoKL
    /\ sv = NoSetValue
    /\ la = NoCallYet
    /\ name # "circ" => circ = NoCallYet
    /\ util = NoCallYet
    /\ name # "md" => md = NoCallYet
    /\ hyp = NoCallYet
    /\ gp = NoCallYet

Idle == IdleExcept("none")

InitFactory == prog = "factory" /\ Idle /\ heap = EmptyHeap
InitFeatureMaps == prog = "feature_maps" /\ Idle /\ heap = EmptyHeap
InitCompact == prog = "compact" /\ Idle /\ heap = EmptyHeap
InitSetValue ==
    /\ prog = "set_value"
    /\ Idle
    /\ \E a \in DenseArrays \cup SparseArrays :
        heap = [EmptyHeap EXCEPT ![1] = a]

InitLinalg == prog = "linalg" /\ Idle /\ heap = EmptyHeap
InitUtils == prog = "utils" /\ Idle /\ heap = EmptyHeap
InitHyperbolic == prog = "hyperbolic" /\ Idle /\ heap = EmptyHeap
InitGPJax == prog = "gpjax" /\ Idle /\ heap = EmptyHeap
InitStiefel == prog = "stiefel" /\ Idle /\ heap = EmptyHeap

\* The circle's point sets: X, and X2 either X itself or a single point.
InitCircle ==
    /\ prog = "circle"
    /\ IdleExcept("circ")
    /\ heap = EmptyHeap
    /\ \E X \in UNION {[1 .. n -> CirclePoints] : n \in 1 .. MaxCircleBatch} :
        \E X2 \in {X} \cup [1 .. 1 -> CirclePoints] :
            circ = [status |-> "none", X |-> X, X2 |-> X2, arg |-> 0,
                    basis |-> NoBasis, done |-> {}, phi |-> <<>>,
                    at |-> <<>>, at_diag |-> <<>>]

\* The caller's key, in any random state.
InitMakeDeterministic ==
    /\ prog = "make_deterministic"
    /\ IdleExcept("md")
    /\ heap = EmptyHeap
    /\ \E state \in Keys : md = [stage |-> "start", key |-> Generator(state)]

NextFactory == New
NextFeatureMaps == CallNoncompactMap \/ CallCompactMap \/ CallMapAgain
NextCompact == EvaluateCompact
NextSetValue == SetValueCall \/ MutateReturned
NextLinalg == Eigenpairs \/ Degree \/ SparseAny
NextCircle ==
    ConstructBasis \/ CallBasis \/ AdditionTheorem \/ AdditionTheoremDiag
NextUtils == Chain \/ OrderedPairwiseDifferences
NextMakeDeterministic == MakeDeterministic \/ AdvanceKey \/ CallDeterministic
NextHyperbolic == Distance \/ HeatKernel \/ KernelK \/ KernelKDiag
NextGPJax == ConstructGPJax \/ TrainGPJax \/ CallGPJax
NextStiefel == HookContentFormula

SpecFactory == InitFactory /\ [][NextFactory]_vars
SpecFeatureMaps == InitFeatureMaps /\ [][NextFeatureMaps]_vars
SpecCompact == InitCompact /\ [][NextCompact]_vars
SpecSetValue == InitSetValue /\ [][NextSetValue]_vars
SpecLinalg == InitLinalg /\ [][NextLinalg]_vars
SpecCircle == InitCircle /\ [][NextCircle]_vars
SpecUtils == InitUtils /\ [][NextUtils]_vars
SpecMakeDeterministic == InitMakeDeterministic /\ [][NextMakeDeterministic]_vars
SpecHyperbolic == InitHyperbolic /\ [][NextHyperbolic]_vars
SpecGPJax == InitGPJax /\ [][NextGPJax]_vars
SpecStiefel == InitStiefel /\ [][NextStiefel]_vars

Init ==
    \/ InitFactory \/ InitFeatureMaps \/ InitCompact \/ InitSetValue
    \/ InitLinalg \/ InitCircle \/ InitUtils \/ InitMakeDeterministic
    \/ InitHyperbolic \/ InitGPJax \/ InitStiefel
Next ==
    \/ NextFactory \/ NextFeatureMaps \/ NextCompact \/ NextSetValue
    \/ NextLinalg \/ NextCircle \/ NextUtils \/ NextMakeDeterministic
    \/ NextHyperbolic \/ NextGPJax \/ NextStiefel
Spec == Init /\ [][Next]_vars

(***************************************************************************)
(* Properties of the kernel factory (checked under SpecFactory).           *)
(***************************************************************************)
Called == result # NoResult
IsDiscrete == IsInstance(call.space.cls, "DiscreteSpectrumSpace")
IsNoncompact == IsInstance(call.space.cls, "NoncompactSymmetricSpace")

\* C1: MaternGeometricKernel on a NoncompactSymmetricSpace without 'key'
\* raises ValueError, and no feature map and no kernel has been constructed
\* when it does, whatever num, normalize and return_feature_map are.
C1_MissingKeyRaisesBeforeConstruction ==
    (Called /\ IsNoncompact /\ ~call.has_key) =>
        /\ result.status = "ValueError"
        /\ result.built = <<>>
        /\ result.kernel = NoKernel
        /\ result.feature_map = NoFeatureMap
        /\ result.returned = "nothing"

C1_Witness ==
    /\ Called
    /\ call.space.cls = "SymmetricPositiveDefiniteMatrices"
    /\ ~call.has_key
    /\ call.num = SomeNum(MaxNum)
    /\ call.return_feature_map
    /\ result.status = "ValueError"

\* C2: on a space that is neither a DiscreteSpectrumSpace nor a
\* NoncompactSymmetricSpace the factory raises NotImplementedError and
\* returns no kernel and no feature map; only the two supported
\* classifications ever yield a result.
C2_UnsupportedSpaceRaises ==
    Called =>
        /\ (~IsDiscrete /\ ~IsNoncompact) =>
              /\ result.status = "NotImplementedError"
              /\ result.kernel = NoKernel
              /\ result.feature_map = NoFeatureMap
              /\ result.returned = "nothing"
        /\ result.status = "ok" => (IsDiscrete \/ IsNoncompact)

C2_Witness ==
    /\ Called
    /\ call.space.cls = "Space"
    /\ call.has_key
    /\ result.status = "NotImplementedError"

\* C3: constructing MaternGeometricKernel on a Hyperbolic space without
\* 'key' raises the missing-key ValueError (Hyperbolic is classified as a
\* NoncompactSymmetricSpace, not as an unsupported space).
C3_HyperbolicWithoutKeyRaisesValueError ==
    (Called /\ call.space.cls = "Hyperbolic" /\ ~call.has_key) =>
        result.status = "ValueError"

\* C4: with no num given, the order resolves to min(1000, num_vertices) for
\* a Mesh or a Graph, 35 for any other DiscreteSpectrumSpace and 3000 for a
\* NoncompactSymmetricSpace, and never exceeds the vertex count of a Graph
\* or Mesh.
C4_DefaultOrder ==
    (Called /\ ~call.num.given /\ (IsDiscrete \/ IsNoncompact)) =>
        /\ result.num =
              IF call.space.cls \in {"Mesh", "Graph"}
              THEN Min(1000, call.space.num_vertices)
              ELSE IF IsDiscrete THEN 35 ELSE 3000
        /\ call.space.cls \in {"Mesh", "Graph"} =>
              result.num <= call.space.num_vertices
        /\ result.status = "ok" /\ IsDiscrete => result.kernel.num = result.num
        /\ result.status = "ok" /\ IsNoncompact =>
              result.feature_map.num = result.num

C4_Witness ==
    /\ Called
    /\ ~call.num.given
    /\ call.space.cls = "Mesh"
    /\ call.space.num_vertices < 1000
    /\ result.status = "ok"
    /\ result.kernel.num = call.space.num_vertices

\* C5: every num the caller supplies (any integer, 0 included) is passed
\* unchanged as the order of approximation to the kernel and to
\* default_feature_map.
C5_SuppliedNumIsUsed ==
    (Called /\ call.num.given /\ result.status = "ok") =>
        /\ result.num = call.num.val
        /\ IsDiscrete => result.kernel.num = call.num.val
        /\ IsNoncompact => result.feature_map.num = call.num.val

\* C6: the engine and the feature map depend on the space's class alone: a
\* DiscreteSpectrumSpace gets a MaternKarhunenLoeveKernel and the
\* deterministic compact map built from that kernel; a Hyperbolic space the
\* hyperbolic rejection-sampling map, a SymmetricPositiveDefiniteMatrices
\* space the SPD rejection-sampling map, any other NoncompactSymmetricSpace
\* the random-phase noncompact map with num phases, each wrapped in a
\* MaternFeatureMapKernel.
C6_SelectionByClass ==
    Called =>
        /\ IsDiscrete =>
              /\ result.status = "ok"
              /\ result.kernel.type = "MaternKarhunenLoeveKernel"
              /\ result.feature_map.kind = "deterministic_feature_map_compact"
              /\ result.feature_map.kernel = result.kernel
        /\ (call.has_key /\ (IsNoncompact \/ call.space.cls = "Hyperbolic")) =>
              /\ result.status = "ok"
              /\ result.kernel.type = "MaternFeatureMapKernel"
              /\ result.kernel.feature_map = result.feature_map
              /\ result.feature_map.num = result.num
              /\ result.feature_map.kind =
                    IF call.space.cls = "Hyperbolic"
                    THEN "rejection_sampling_feature_map_hyperbolic"
                    ELSE IF call.space.cls = "SymmetricPositiveDefiniteMatrices"
                    THEN "rejection_sampling_feature_map_spd"
                    ELSE "random_phase_feature_map_noncompact"

(***************************************************************************)
(* Properties of the random-phase feature maps (under SpecFeatureMaps).    *)
(***************************************************************************)
MapCalled == fmcall # NoMapCall

SamplerNames == [i \in 1 .. Len(fmout.samplers) |-> fmout.samplers[i].fn]

\* C7: a stochastic feature map draws only from the caller's key, threaded
\* in sequence: the caller's key goes to the first sampling call, each later
\* sampling call gets the key the previous one returned (noncompact:
\* space.random_phases, then base_density_sample), and the returned context
\* holds under 'key' the key the last sampling call returned.
C7_KeyThreadedSequentially ==
    MapCalled =>
        /\ Len(fmout.samplers) >= 1
        /\ fmout.samplers[1].key_in = fmcall.key
        /\ \A i \in 1 .. Len(fmout.samplers) - 1 :
              fmout.samplers[i + 1].key_in = fmout.samplers[i].key_out
        /\ fmout.context.has_key
        /\ fmout.context.key = fmout.samplers[Len(fmout.samplers)].key_out
        /\ fmcall.map.kind = "random_phase_feature_map_noncompact" =>
              SamplerNames = <<"space.random_phases", "base_density_sample">>
        /\ fmcall.map.kind = "random_phase_feature_map_compact" =>
              SamplerNames = <<"space.random">>

C7_Witness ==
    /\ MapCalled
    /\ fmcall.map.kind = "random_phase_feature_map_noncompact"
    /\ Len(fmout.samplers) = 2
    /\ fmout.samplers[2].key_in # fmcall.key
    /\ fmout.context.key # fmcall.key

\* C8: the noncompact random-phase map guards the L2 normalizer with a
\* floor: also for a point whose un-normalized row has zero norm it divides
\* by no zero and returns a finite row.
C8_NormalizedRowsAreFinite ==
    (MapCalled /\ fmcall.map.kind = "random_phase_feature_map_noncompact") =>
        \A n \in 1 .. Len(fmout.features) :
            \A k \in 1 .. Len(fmout.features[n]) :
                IsFinite(fmout.features[n][k])

(***************************************************************************)
(* The deterministic map against the truncated series (under SpecCompact). *)
(***************************************************************************)
\* C9: on a compact space the deterministic feature map reproduces the
\* truncated-series kernel exactly: features(X) features(Y)^T = K(X, Y) for
\* all X, Y and params, with the weights the kernel uses, also when the
\* kernel was built with normalize=True.
C9_FeatureMapReproducesKernel ==
    kl.evaluated => InnerProducts(kl.features_X, kl.features_Y) = kl.K

(***************************************************************************)
(* set_value (under SpecSetValue).                                         *)
(***************************************************************************)
\* C10: set_value(a, index, value) returns a new array equal to a except
\* that position index holds value, for dense and for sparse arrays, and the
\* array passed in is unchanged after the call, also once the returned array
\* has been modified.
C10_SetValueIsFunctional ==
    (sv.called /\ sv.status = "ok") =>
        /\ sv.out # sv.inp
        /\ heap[sv.inp] = sv.before
        /\ heap[sv.out].kind = sv.before.kind
        /\ ~sv.mutated =>
              Entries(heap[sv.out]) =
                  [Entries(sv.before) EXCEPT
                      ![Position(sv.index, ArrayLength(sv.before))] = sv.value]

C10_Witness ==
    /\ sv.called
    /\ sv.status = "ok"
    /\ sv.mutated
    /\ sv.before.kind = "sparse"
    /\ sv.index < 0
    /\ Entries(heap[sv.out]) # Entries(heap[sv.inp])

(***************************************************************************)
(* eigenpairs and degree (under SpecLinalg).                               *)
(***************************************************************************)
EigenpairsReturned == la.fn = "eigenpairs" /\ la.ret.out.status = "ok"

\* The indices of the diagonal whose unit vector is among the eigenvectors
\* returned.
ReturnedIndices ==
    {i \in 1 .. la.L.n :
        \E p \in 1 .. Len(la.ret.out.v) :
            la.ret.out.v[p] = UnitVector(la.L.n, i)}

\* C11: eigenpairs(L, k) returns the k highest eigenpairs of the symmetric
\* PSD matrix L: k eigenvalues come back, each with an eigenvector of its
\* own (L v = w v), and they are the k largest eigenvalues of L.
C11_EigenpairsAreTheKLargest ==
    (EigenpairsReturned /\ la.k <= la.L.n) =>
        /\ Len(la.ret.out.w) = la.k
        /\ Len(la.ret.out.v) = la.k
        /\ Cardinality(ReturnedIndices) = la.k
        /\ \A p \in 1 .. Len(la.ret.out.w) :
              \A i \in 1 .. la.L.n :
                  la.L.diag[i] * la.ret.out.v[p][i]
                      = la.ret.out.w[p] * la.ret.out.v[p][i]
        /\ \A i \in ReturnedIndices :
              \A j \in (1 .. la.L.n) \ ReturnedIndices :
                  la.L.diag[i] >= la.L.diag[j]

\* C12: eigenpairs converts a sparse L to a dense array if and only if
\* k = L.shape[0] and never converts a dense L; the solver is called once
\* per call, on the converted matrix if there is one, and what it raises
\* is what the call raises; degree of a sparse adjacency matrix is a sparse
\* diagonal matrix holding the column sums.
C12_DensifyOnlyWhenKIsN ==
    /\ la.fn = "eigenpairs" =>
          /\ la.ret.converted <=> (la.L.kind = "sparse" /\ la.k = la.L.n)
          /\ la.L.kind = "dense" => ~la.ret.converted
          /\ la.ret.solved = (IF la.ret.converted THEN "dense" ELSE la.L.kind)
          /\ la.ret.solver_calls = 1
          /\ la.ret.out.status # "ok" =>
                la.ret.out.w = <<>> /\ la.ret.out.v = <<>>
    /\ la.fn = "degree" =>
          /\ la.a.kind = "sparse" => la.ret.kind = "sparse"
          /\ la.ret.n = la.a.n
          /\ \A j \in 1 .. la.a.n :
                la.ret.diag[j] =
                    Cardinality({e \in la.a.edges : j \in {e[1], e[2]}})

C12_Witness ==
    /\ la.fn = "eigenpairs"
    /\ la.L.kind = "sparse"
    /\ la.k = la.L.n
    /\ la.L.n > 1
    /\ la.ret.converted
    /\ la.ret.out.status = "ok"
    /\ Len(la.ret.out.w) = la.L.n

(***************************************************************************)
(* The circle's sin-cos basis (under SpecCircle).                          *)
(***************************************************************************)
Constructed == circ.status \in {"ok", "AssertionError"}

\* C13: constructing the basis with an eigenfunction count that is even or
\* less than 1 fails at construction and produces no basis object; every
\* odd count >= 1 is accepted.
C13_OddCountRequired ==
    Constructed =>
        /\ (circ.arg % 2 = 0 \/ circ.arg < 1) =>
              circ.status = "AssertionError" /\ circ.basis = NoBasis
        /\ (circ.arg % 2 = 1 /\ circ.arg >= 1) =>
              /\ circ.status = "ok"
              /\ circ.basis.num_eigenfunctions = circ.arg

C13_Witness ==
    /\ circ.status = "AssertionError"
    /\ circ.arg % 2 = 0
    /\ circ.arg >= 2

\* C14: for every accepted count M, num_levels = M // 2 + 1, the per-level
\* counts are 1 for level 0 and 2 for every other level, and their sum over
\* all levels is num_eigenfunctions = M.
C14_PerLevelCountsSumToTotal ==
    circ.status = "ok" =>
        LET per_level == num_eigenfunctions_per_level(circ.basis.num_levels)
        IN  /\ circ.basis.num_eigenfunctions = circ.arg
            /\ circ.basis.num_levels = (circ.arg \div 2) + 1
            /\ Len(per_level) = circ.basis.num_levels
            /\ \A l \in 1 .. Len(per_level) :
                  per_level[l] = (IF l = 1 THEN 1 ELSE 2)
            /\ SumSeq(per_level) = circ.basis.num_eigenfunctions

C14_Witness ==
    /\ circ.status = "ok"
    /\ circ.basis.num_eigenfunctions = 5
    /\ circ.basis.num_levels = 3

\* C15: evaluating the basis with num_eigenfunctions = M at N points gives
\* an [N, M] matrix: column 1 is exactly 1 for every point, and each later
\* level contributes a sqrt(2) cos / sqrt(2) sin pair of columns.
C15_CallShapeAndConstantColumn ==
    "call" \in circ.done =>
        /\ Len(circ.phi) = Len(circ.X)
        /\ \A n \in 1 .. Len(circ.phi) :
              /\ Len(circ.phi[n]) = circ.basis.num_eigenfunctions
              /\ circ.phi[n][1] = One
              /\ \A l \in 1 .. circ.basis.num_levels - 1 :
                    /\ circ.phi[n][2 * l] =
                          TimesSqrt2(CosQuarter(l * cartesian_to_polar(circ.X)[n]))
                    /\ circ.phi[n][2 * l + 1] =
                          TimesSqrt2(SinQuarter(l * cartesian_to_polar(circ.X)[n]))

C15_Witness ==
    /\ "call" \in circ.done
    /\ circ.basis.num_eigenfunctions = 5
    /\ circ.X = <<(<<1, 0>>), (<<0, 1>>)>>
    /\ Len(circ.phi) = 2
    /\ Len(circ.phi[2]) = 5
    /\ circ.phi[2][1] = One
    /\ circ.phi[2][2] # circ.phi[1][2]

\* C16: addition_theorem_diag(X) is [N, L], addition_theorem(X, X2) is
\* [N, N2, L], and for every level l and every point n of X
\* addition_theorem_diag(X)[n, l] = addition_theorem(X, X)[n, n, l] = the
\* number of eigenfunctions in level l.
C16_AdditionTheoremDiagonal ==
    /\ "addition_theorem_diag" \in circ.done =>
          /\ Len(circ.at_diag) = Len(circ.X)
          /\ \A n \in 1 .. Len(circ.at_diag) :
                /\ Len(circ.at_diag[n]) = circ.basis.num_levels
                /\ \A l \in 1 .. circ.basis.num_levels :
                      circ.at_diag[n][l] = (IF l = 1 THEN 1 ELSE 2)
    /\ "addition_theorem" \in circ.done =>
          /\ Len(circ.at) = Len(circ.X)
          /\ \A n \in 1 .. Len(circ.at) :
                /\ Len(circ.at[n]) = Len(circ.X2)
                /\ \A n2 \in 1 .. Len(circ.X2) :
                      Len(circ.at[n][n2]) = circ.basis.num_levels
    /\ ({"addition_theorem", "addition_theorem_diag"} \subseteq circ.done
          /\ circ.X2 = circ.X) =>
          \A n \in 1 .. Len(circ.X) :
              \A l \in 1 .. circ.basis.num_levels :
                  circ.at_diag[n][l] = circ.at[n][n][l]

C16_Witness ==
    /\ {"addition_theorem", "addition_theorem_diag"} \subseteq circ.done
    /\ circ.X2 = circ.X
    /\ Len(circ.X) = 2
    /\ circ.basis.num_levels = 3
    /\ circ.at[1][2] # circ.at[1][1]
    /\ circ.at_diag[2][3] = circ.at[2][2][3]

(***************************************************************************)
(* make_deterministic (under SpecMakeDeterministic).                       *)
(***************************************************************************)
HasKeyParameter(f) == "key" \in Range(f.args) \cup f.kwonlyargs

\* The keys among the arguments f is called with.
KeysHanded(c) ==
    {c.new_args[i] : i \in {j \in 1 .. Len(c.new_args) :
                                c.new_args[j].kind = "key"}}
        \cup {c.new_kwargs[p] : p \in {q \in DOMAIN c.new_kwargs :
                                           c.new_kwargs[q].kind = "key"}}

\* C17: for f with a 'key' parameter, every call of the function returned
\* by make_deterministic(f, key) hands f one key, in the random state the
\* caller's key had when make_deterministic was called, so all calls give f
\* the same random state, however many came before and whatever state the
\* caller's key has moved to since; the other arguments are handed on as
\* the caller gave them.
C17_CallsGetTheCapturedState ==
    (md.stage = "wrapped" /\ HasKeyParameter(md.w.f)) =>
        /\ md.w.returned = "deterministic_f"
        /\ \A i \in 1 .. Len(md.calls) :
              /\ KeysHanded(md.calls[i])
                    = {KeyArgument(Generator(md.key_at_wrap))}
              /\ \A j \in 1 .. Len(md.calls) :
                    KeysHanded(md.calls[j]) = KeysHanded(md.calls[i])
              /\ SelectSeq(md.calls[i].new_args, LAMBDA a : a.kind = "arg")
                    = md.calls[i].args
              /\ \A p \in DOMAIN md.calls[i].kwargs :
                    /\ p \in DOMAIN md.calls[i].new_kwargs
                    /\ md.calls[i].new_kwargs[p] = md.calls[i].kwargs[p]

C17_Witness ==
    /\ md.stage = "wrapped"
    /\ md.w.key_argtype = "pos"
    /\ md.w.key_position = 1
    /\ Len(md.w.f.args) = 3
    /\ Len(md.calls) = 2
    /\ md.calls[1].key_then = md.key_at_wrap
    /\ md.calls[2].key_then # md.key_at_wrap
    /\ Len(md.calls[2].args) = 2
    /\ KeysHanded(md.calls[2]) = KeysHanded(md.calls[1])

\* The parameters of f other than 'key', in order.
OtherParameters(f) == SelectSeq(f.args, LAMBDA p : p # "key")

\* C23: for f whose 'key' parameter is positional, every call of the
\* function returned by make_deterministic binds the restored key to f's
\* 'key' and every argument of the caller to the parameter the caller
\* meant, whichever of the other parameters the caller passes positionally
\* and whichever by keyword, those before 'key' included.
C23_KeywordCallsBindAsIntended ==
    (md.stage = "wrapped" /\ md.w.key_argtype = "pos") =>
        \A i \in 1 .. Len(md.calls) :
            /\ md.calls[i].f.status = "ok"
            /\ md.calls[i].f.bound["key"]
                  = KeyArgument(Generator(md.key_at_wrap))
            /\ \A j \in 1 .. Len(OtherParameters(md.w.f)) :
                  md.calls[i].f.bound[OtherParameters(md.w.f)[j]]
                      = Argument(j)

(***************************************************************************)
(* chain and ordered_pairwise_differences (under SpecUtils).               *)
(***************************************************************************)
\* The number of entries chain puts before the block of element i.
Offset(repetitions, i) == SumSeq(SubSeq(repetitions, 1, i - 1))

\* C18: chain(elements, repetitions), for elements and repetitions of
\* equal length, is the sequence whose length is the sum of repetitions
\* and in which elements[i] fills repetitions[i] consecutive positions,
\* the blocks in increasing order of i.
C18_ChainRepeatsInOrder ==
    (util.fn = "chain" /\ Len(util.elements) = Len(util.repetitions)) =>
        /\ Len(util.out) = SumSeq(util.repetitions)
        /\ \A i \in 1 .. Len(util.elements) :
              \A p \in Offset(util.repetitions, i) + 1
                        .. Offset(util.repetitions, i) + util.repetitions[i] :
                  util.out[p] = util.elements[i]

C18_Witness ==
    /\ util.fn = "chain"
    /\ Len(util.elements) = 3
    /\ util.repetitions = <<2, 1, 2>>
    /\ util.elements[1] # util.elements[2]
    /\ util.elements[2] # util.elements[3]
    /\ Len(util.out) = 5
    /\ util.out[3] = util.elements[2]

\* The ordered index pairs i < j of a row of length d.
OrderedPairs(d) == {pr \in (1 .. d) \X (1 .. d) : pr[1] < pr[2]}

\* C19: ordered_pairwise_differences(X) for X of shape [B, D] has shape
\* [B, D (D - 1) / 2], and each row holds exactly the differences
\* X[i] - X[j] of the index pairs i < j, each pair once: every value occurs
\* in the row as often as there are pairs i < j with that difference.
C19_OrderedPairwiseDifferences ==
    util.fn = "ordered_pairwise_differences" =>
        /\ Len(util.out) = Len(util.X)
        /\ \A b \in 1 .. Len(util.X) :
              LET d == Len(util.X[b])
                  row == util.out[b]
              IN  /\ 2 * Len(row) = d * (d - 1)
                  /\ \A v \in -MaxElement .. MaxElement :
                        Cardinality({p \in 1 .. Len(row) : row[p] = v})
                            = Cardinality({pr \in OrderedPairs(d) :
                                  util.X[b][pr[1]] - util.X[b][pr[2]] = v})
                  /\ \A p \in 1 .. Len(row) :
                        row[p] \in -MaxElement .. MaxElement

C19_Witness ==
    /\ util.fn = "ordered_pairwise_differences"
    /\ util.X = <<(<<0, 1, 2>>)>>
    /\ util.out = <<(<<-1, -2, -1>>)>>

(***************************************************************************)
(* Shapes of the hyperbolic kernel (under SpecHyperbolic).                 *)
(***************************************************************************)
\* The number of points an array holds.
NumPoints(x) == IF rank(x) = 1 THEN 1 ELSE x[1]

C21_CallIsScaledCrossCovariance ==
    gp.fn = "call" =>
        /\ gp.ret.status = "ok"
        /\ gp.ret.value =
              [i \in 1 .. Len(gp.x) |->
                  [j \in 1 .. Len(gp.y) |->
                      [variance |-> gp.self.variance,
                       nu |-> gp.self.nu,
                       lengthscale |-> gp.self.lengthscale,
                       x |-> gp.x[i], y |-> gp.y[j]]]]

\* C22: Hyperbolic.heat_kernel selects its formula by the dimension alone:
\* dimensions 1 and 3 use a closed form, dimension 2 uses quadrature over
\* the nodes distance + offset with every offset >= 1e-2 (so that every
\* node strictly exceeds the distance), and every other dimension raises
\* NotImplementedError and returns no value.
C22_HeatKernelFormulaByDimension ==
    hyp.fn = "heat_kernel" =>
        /\ hyp.dimension \in {1, 3} =>
              /\ hyp.status = "ok"
              /\ hyp.formula = "closed_form"
              /\ hyp.offsets = <<>>
        /\ hyp.dimension = 2 =>
              /\ hyp.status = "ok"
              /\ hyp.formula = "quadrature"
              /\ Len(hyp.offsets) = hyp.num_points
              /\ \A i \in 1 .. Len(hyp.offsets) :
                    \* 10 ** r >= 10 ** -2 exactly when r >= -2
                    /\ hyp.offsets[i].log.d > 0
                    /\ hyp.offsets[i].log.n >= -2 * hyp.offsets[i].log.d
        /\ hyp.dimension \notin {1, 2, 3} =>
              /\ hyp.status = "NotImplementedError"
              /\ hyp.formula = "none"
              /\ hyp.heat_kernel = ShapeError

C22_Witness ==
    /\ hyp.fn = "heat_kernel"
    /\ hyp.dimension = 2
    /\ hyp.num_points = MaxQuadrature
    /\ hyp.formula = "quadrature"
    /\ hyp.offsets[1].log = RInt(-2)
    /\ hyp.offsets[MaxQuadrature].log = RInt(2)

(***************************************************************************)
(* B.any on sparse arrays (under SpecLinalg).                              *)
(***************************************************************************)
\* C24: B.any applied to a sparse array returns True if and only if the
\* array has at least one nonzero entry, whatever the values of its entries.
C24_SparseAnyIsAnyNonzero ==
    la.fn = "any" =>
        (la.ret <=> \E i \in 1 .. la.a.n : la.a.diag[i] # 0)

(***************************************************************************)
(* hook_content_formula (under SpecStiefel).                               *)
(***************************************************************************)
\* The partitions mu whose diagram is that of lmd with a horizontal strip
\* removed: lmd[1] >= mu[1] >= lmd[2] >= mu[2] >= ...
StripRemoved(lmd) ==
    {mu \in [1 .. Len(lmd) -> 0 .. lmd[1]] :
        \A r \in 1 .. Len(lmd) :
            /\ mu[r] <= lmd[r]
            /\ r < Len(lmd) => mu[r] >= lmd[r + 1]}

\* The number of semistandard Young tableaux of shape lmd with entries in
\* 1 .. n, counted by the cells that hold the largest entry n: they form a
\* horizontal strip, and what remains is a tableau with entries in
\* 1 .. n - 1.
RECURSIVE Tableaux(_, _)
RECURSIVE TableauxOver(_, _)
Tableaux(lmd, n) ==
    IF n = 0 THEN (IF SumSeq(lmd) = 0 THEN 1 ELSE 0)
    ELSE TableauxOver(StripRemoved(lmd), n - 1)
TableauxOver(shapes, n) ==
    IF shapes = {} THEN 0
    ELSE LET mu == CHOOSE m \in shapes : TRUE
         IN  Tableaux(mu, n) + TableauxOver(shapes \ {mu}, n)

\* C25: hook_content_formula(lmd, n), for every partition lmd (trailing
\* zeros allowed) and every n >= 1, divides by a nonzero denominator and
\* returns an integer value, the number of semistandard Young tableaux of
\* shape lmd with entries in 1 .. n; it is 1 for the all-zero partition and
\* 0 when lmd has more than n nonzero parts.
C25_HookContentCountsTableaux ==
    util.fn = "hook_content_formula" =>
        /\ util.ret.status = "ok"
        /\ util.ret.denom # 0
        /\ util.ret.value.d = 1
        /\ util.ret.value.n = Tableaux(util.lmd, util.n)
        /\ SumSeq(util.lmd) = 0 => util.ret.value = RInt(1)
        /\ Cardinality({r \in 1 .. Len(util.lmd) : util.lmd[r] > 0}) > util.n
              => util.ret.value = RInt(0)

C25_Witness ==
    /\ util.fn = "hook_content_formula"
    /\ util.lmd = <<2, 1, 0>>
    /\ util.n = 3
    /\ util.ret.numer = 24
    /\ util.ret.denom = 3
    /\ util.ret.value = RInt(8)

====
